---- MODULE Spec2Model ----
(***************************************************************************)
(* DSUComfyCG Manager: model-name resolution (core/checker.py,             *)
(* core/fuzzy_matcher.py) and the model download engine (core/checker.py,  *)
(* core/aria2_downloader.py).                                              *)
(*                                                                         *)
(* File names are sequences of one-character strings, so that the string   *)
(* functions of the source (basename, splitext, lower, the precision       *)
(* regular expression, difflib's ratio) are computed, not assumed.          *)
(* Confidences and similarity ratios are in thousandths (1000 = 1.0).      *)
(* File sizes and byte offsets are counted in MiB blocks.                  *)
(***************************************************************************)
EXTENDS Integers, Sequences, FiniteSets, TLC

(***************************************************************************)
(* Strings                                                                 *)
(***************************************************************************)

\* str.lower() on one character (the upper-case letters the model uses)
LowerChar(c) ==
    CASE c = "F" -> "f"
      [] c = "P" -> "p"
      [] c = "Q" -> "q"
      [] c = "K" -> "k"
      [] c = "M" -> "m"
      [] c = "S" -> "s"
      [] c = "W" -> "w"
      [] c = "A" -> "a"
      [] c = "N" -> "n"
      [] c = "T" -> "t"
      [] c = "B" -> "b"
      [] OTHER -> c

\* str.lower()
Lower(s) == [i \in 1..Len(s) |-> LowerChar(s[i])]

\* str.replace("\\", "/")
ReplaceBackslash(s) == [i \in 1..Len(s) |-> IF s[i] = "\\" THEN "/" ELSE s[i]]

\* str.rfind(c), 1-based; 0 when c does not occur
RFind(s, c) ==
    LET hits == {i \in 1..Len(s) : s[i] = c}
    IN  IF hits = {} THEN 0 ELSE CHOOSE i \in hits : \A j \in hits : j <= i

\* s[i:] with i 1-based and inclusive
From(s, i) == SubSeq(s, i, Len(s))

\* os.path.basename(p): what follows the last "/"
PathBasename(p) == From(p, RFind(p, "/") + 1)

\* os.path.basename(name.replace("\\", "/"))
Basename(name) == PathBasename(ReplaceBackslash(name))

\* os.path.splitext(b) for a name without directory part: the extension
\* starts at the last dot, unless only dots precede that dot
SplitDot(b) ==
    LET d == RFind(b, ".")
    IN  IF d > 0 /\ (\E i \in 1..(d - 1) : b[i] # ".") THEN d ELSE Len(b) + 1

Stem(b) == SubSeq(b, 1, SplitDot(b) - 1)

Ext(b) == From(b, SplitDot(b))

\* s[i:i+len(t)] == t, i 1-based
MatchesAt(s, i, t) ==
    /\ i >= 1
    /\ i + Len(t) - 1 <= Len(s)
    /\ SubSeq(s, i, i + Len(t) - 1) = t

(***************************************************************************)
(* core/fuzzy_matcher.py: precision tokens and alias tables                *)
(***************************************************************************)

fp16 == <<"f", "p", "1", "6">>
bf16 == <<"b", "f", "1", "6">>
fp32 == <<"f", "p", "3", "2">>
fp8 == <<"f", "p", "8">>
fp8_e4m3fn == <<"f", "p", "8", "_", "e", "4", "m", "3", "f", "n">>
fp8_e4m3fn_scaled == fp8_e4m3fn \o <<"_", "s", "c", "a", "l", "e", "d">>
Q4_K_M == <<"Q", "4", "_", "K", "_", "M">>
Q4_K_S == <<"Q", "4", "_", "K", "_", "S">>
Q5_K_M == <<"Q", "5", "_", "K", "_", "M">>
Q5_K_S == <<"Q", "5", "_", "K", "_", "S">>
Q6_K == <<"Q", "6", "_", "K">>
Q8_0 == <<"Q", "8", "_", "0">>

EXT_safetensors == <<".", "s", "a", "f", "e", "t", "e", "n", "s", "o", "r", "s">>
EXT_ckpt == <<".", "c", "k", "p", "t">>
EXT_pt == <<".", "p", "t">>
EXT_pth == <<".", "p", "t", "h">>
EXT_gguf == <<".", "g", "g", "u", "f">>
EXT_bin == <<".", "b", "i", "n">>

\* the dict FORMAT_ALIASES, in its insertion order
FORMAT_ALIASES ==
    << [key |-> fp16, val |-> <<bf16, fp32, fp8_e4m3fn, fp8_e4m3fn_scaled, fp8>>],
       [key |-> bf16, val |-> <<fp16, fp32, fp8_e4m3fn, fp8_e4m3fn_scaled, fp8>>],
       [key |-> fp32, val |-> <<bf16, fp16>>],
       [key |-> fp8, val |-> <<fp8_e4m3fn, fp8_e4m3fn_scaled, fp16, bf16>>],
       [key |-> fp8_e4m3fn, val |-> <<fp8_e4m3fn_scaled, fp8, fp16, bf16>>],
       [key |-> fp8_e4m3fn_scaled, val |-> <<fp8_e4m3fn, fp8, fp16, bf16>>],
       [key |-> Q4_K_M, val |-> <<Q4_K_S, Q5_K_M, Q5_K_S, Q8_0, Q6_K>>],
       [key |-> Q4_K_S, val |-> <<Q4_K_M, Q5_K_S, Q5_K_M, Q8_0>>],
       [key |-> Q5_K_M, val |-> <<Q5_K_S, Q4_K_M, Q6_K, Q8_0>>],
       [key |-> Q5_K_S, val |-> <<Q5_K_M, Q4_K_M, Q4_K_S, Q8_0>>],
       [key |-> Q6_K, val |-> <<Q5_K_M, Q8_0, Q4_K_M>>],
       [key |-> Q8_0, val |-> <<Q6_K, Q5_K_M, Q4_K_M>>] >>

\* the dict EXTENSION_ALIASES, in its insertion order
EXTENSION_ALIASES ==
    << [key |-> EXT_safetensors, val |-> <<EXT_ckpt, EXT_pt, EXT_pth, EXT_bin>>],
       [key |-> EXT_ckpt, val |-> <<EXT_safetensors, EXT_pt, EXT_pth>>],
       [key |-> EXT_pt, val |-> <<EXT_pth, EXT_safetensors, EXT_ckpt>>],
       [key |-> EXT_pth, val |-> <<EXT_pt, EXT_safetensors, EXT_ckpt>>],
       [key |-> EXT_gguf, val |-> <<EXT_safetensors>>],
       [key |-> EXT_bin, val |-> <<EXT_safetensors, EXT_pt>>] >>

\* a lookup that finds no key
DictGetNothing(table, k) == <<>>

\* dict.get(k, []) on a table of [key, val] rows
DictGet(table, k) ==
    LET hits == {i \in 1..Len(table) : table[i].key = k}
    IN  IF hits = {} THEN <<>> ELSE table[CHOOSE i \in hits : TRUE].val

\* the alternation of _PRECISION_PATTERN, in its written order
PRECISION_TOKENS ==
    <<fp16, bf16, fp32, fp8_e4m3fn_scaled, fp8_e4m3fn, fp8,
      Q4_K_M, Q4_K_S, Q5_K_M, Q5_K_S, Q6_K, Q8_0>>

\* the lookahead (?=[\._-]|$) after a token that ends at position e
LookaheadOk(s, e) == e = Len(s) \/ s[e + 1] \in {".", "_", "-"}

\* _PRECISION_PATTERN tried at position i of s (re.IGNORECASE): the index of
\* the first alternative that matches after the separator s[i] and passes the
\* lookahead, 0 when none does
PrecisionTokenAt(s, i) ==
    LET ok == {k \in 1..Len(PRECISION_TOKENS) :
                  /\ s[i] \in {"_", "-"}
                  /\ MatchesAt(Lower(s), i + 1, Lower(PRECISION_TOKENS[k]))
                  /\ LookaheadOk(s, i + Len(PRECISION_TOKENS[k]))}
    IN  IF ok = {} THEN 0 ELSE CHOOSE k \in ok : \A j \in ok : k <= j

\* _PRECISION_PATTERN.search(s) from position `from` on: the leftmost match
\* as [start, tok], start = 0 when there is none
PrecisionSearch(s, from) ==
    LET at == {i \in from..Len(s) : PrecisionTokenAt(s, i) # 0}
        i0 == CHOOSE i \in at : \A j \in at : i <= j
    IN  IF at = {} THEN [start |-> 0, tok |-> 0]
        ELSE [start |-> i0, tok |-> PrecisionTokenAt(s, i0)]

\* _PRECISION_PATTERN.sub("", s): every non-overlapping match removed
RECURSIVE PrecisionSubFrom(_, _)
PrecisionSubFrom(s, from) ==
    LET m == PrecisionSearch(s, from)
    IN  IF m.start = 0 THEN From(s, from)
        ELSE SubSeq(s, from, m.start - 1)
             \o PrecisionSubFrom(s, m.start + Len(PRECISION_TOKENS[m.tok]) + 1)

PrecisionSub(s) == PrecisionSubFrom(s, 1)

\* the sequence q without its elements that are in the set drop
RECURSIVE SelectNot(_, _)
SelectNot(q, drop) ==
    IF q = <<>> THEN <<>>
    ELSE (IF Head(q) \in drop THEN <<>> ELSE <<Head(q)>>) \o SelectNot(Tail(q), drop)

\* the members of a sequence
Range(q) == {q[i] : i \in 1..Len(q)}

\* list.append of each element of `more` that is not yet in the list
\* (the "alt_name not in alternatives" test)
RECURSIVE AppendNew(_, _)
AppendNew(q, more) ==
    IF more = <<>> THEN q
    ELSE AppendNew((IF Head(more) \in Range(q) THEN q ELSE Append(q, Head(more))),
                   Tail(more))

\* alias_list of get_alternative_names: FORMAT_ALIASES.get(original), then
\* the first key equal to it up to letter case
AliasList(original) ==
    LET exact == DictGet(FORMAT_ALIASES, original)
        ci == {i \in 1..Len(FORMAT_ALIASES) :
                  Lower(FORMAT_ALIASES[i].key) = Lower(original)}
    IN  IF exact # <<>> THEN exact
        ELSE IF ci = {} THEN <<>>
        ELSE FORMAT_ALIASES[CHOOSE i \in ci : \A j \in ci : i <= j].val

\* step 1 of get_alternative_names: the basename with the first recognized
\* precision token replaced by each entry of its alias list, the basename
\* itself left out
PrecisionAlternatives(basename) ==
    LET stem == Stem(basename)
        ext == Ext(basename)
        match == PrecisionSearch(stem, 1)
        tokLen == Len(PRECISION_TOKENS[match.tok])
        original_precision == SubSeq(stem, match.start + 1, match.start + tokLen)
        prefix == SubSeq(stem, 1, match.start - 1)
        suffix == From(stem, match.start + tokLen + 1)
        sep == <<stem[match.start]>>
        alias_list == AliasList(original_precision)
    IN  IF match.start = 0 THEN <<>>
        ELSE SelectNot([k \in 1..Len(alias_list) |->
                           prefix \o sep \o alias_list[k] \o suffix \o ext],
                       {basename})

\* get_alternative_names(model_name)
get_alternative_names(model_name) ==
    LET basename == Basename(model_name)
        stem == Stem(basename)
        ext == Ext(basename)
        match == PrecisionSearch(stem, 1)
        \* 1. precision / quantization alternatives
        alts1 == PrecisionAlternatives(basename)
        \* 2. extension alternatives
        ext_lower == Lower(ext)
        extAlts == DictGet(EXTENSION_ALIASES, ext_lower)
        alts2 == AppendNew(alts1,
                           SelectNot([k \in 1..Len(extAlts) |-> stem \o extAlts[k]],
                                     {basename}))
        \* 3. GGUF <-> safetensors
        quants == <<Q4_K_M, Q5_K_M, Q8_0>>
        alts3 == IF ext_lower = EXT_gguf /\ match.start # 0
                 THEN <<PrecisionSub(stem) \o EXT_safetensors>>
                 ELSE IF ext_lower = EXT_safetensors
                 THEN [k \in 1..(2 * Len(quants)) |->
                          stem \o <<(IF k % 2 = 1 THEN "_" ELSE "-")>>
                               \o quants[(k + 1) \div 2] \o EXT_gguf]
                 ELSE <<>>
    IN  alts2 \o alts3

(***************************************************************************)
(* core/fuzzy_matcher.py: fuzzy matching                                   *)
(***************************************************************************)

CONFIDENCE_EXACT == 1000
CONFIDENCE_ALIAS == 900

\* the length of the common run of a from i and b from j, inside a[..ahi]
\* and b[..bhi]
RECURSIVE RunLen(_, _, _, _, _, _)
RunLen(a, b, i, j, ahi, bhi) ==
    IF i > ahi \/ j > bhi \/ a[i] # b[j] THEN 0
    ELSE 1 + RunLen(a, b, i + 1, j + 1, ahi, bhi)

\* difflib.SequenceMatcher.find_longest_match(alo, ahi, blo, bhi) without
\* junk (autojunk needs 200 elements): the longest block, of those the one
\* starting earliest in a, of those the one starting earliest in b.
\* Bounds are 1-based and inclusive.
find_longest_match(a, b, alo, ahi, blo, bhi) ==
    LET pairs == (alo..ahi) \X (blo..bhi)
        len(p) == RunLen(a, b, p[1], p[2], ahi, bhi)
        best == CHOOSE p \in pairs :
                    \A q \in pairs :
                        \/ len(p) > len(q)
                        \/ /\ len(p) = len(q)
                           /\ (p[1] < q[1] \/ (p[1] = q[1] /\ p[2] <= q[2]))
    IN  IF pairs = {} THEN <<alo, blo, 0>> ELSE <<best[1], best[2], len(best)>>

\* the sum of the sizes of SequenceMatcher.get_matching_blocks(): the longest
\* block, then the same to its left and to its right
RECURSIVE MatchingSize(_, _, _, _, _, _)
MatchingSize(a, b, alo, ahi, blo, bhi) ==
    LET m == find_longest_match(a, b, alo, ahi, blo, bhi)
    IN  IF m[3] = 0 THEN 0
        ELSE m[3]
             + MatchingSize(a, b, alo, m[1] - 1, blo, m[2] - 1)
             + MatchingSize(a, b, m[1] + m[3], ahi, m[2] + m[3], bhi)

\* the numerator and denominator of SequenceMatcher(None, a, b).ratio()
\* = 2.0 * matches / (len(a) + len(b)), 1.0 for two empty strings
RatioNum(a, b) ==
    IF Len(a) + Len(b) = 0 THEN 1 ELSE 2 * MatchingSize(a, b, 1, Len(a), 1, Len(b))

RatioDen(a, b) == IF Len(a) + Len(b) = 0 THEN 1 ELSE Len(a) + Len(b)

\* round(num / den, 3) in thousandths, ties to even (the ties that lengths
\* up to 32 can produce are exact binary fractions)
Round3(num, den) ==
    LET q == (1000 * num) \div den
        r == (1000 * num) % den
    IN  IF 2 * r > den THEN q + 1
        ELSE IF 2 * r < den THEN q
        ELSE IF q % 2 = 0 THEN q ELSE q + 1

\* the stem fuzzy_match_model compares: lower-cased basename, extension off
FuzzyStem(name) == Stem(Lower(Basename(name)))

\* ratio >= threshold, threshold in thousandths
RatioAtLeast(a, b, threshold) == 1000 * RatioNum(a, b) >= threshold * RatioDen(a, b)

\* the rounded similarity fuzzy_match_model reports for one candidate
Similarity(name, candidate) ==
    Round3(RatioNum(FuzzyStem(name), FuzzyStem(candidate)),
           RatioDen(FuzzyStem(name), FuzzyStem(candidate)))

\* list.sort(key = ratio, reverse = True) is stable: the position in
\* `matches` of the first entry of highest ratio
BestIndex(matches) ==
    CHOOSE i \in 1..Len(matches) :
        \A j \in 1..Len(matches) :
            \/ matches[i][2] > matches[j][2]
            \/ (matches[i][2] = matches[j][2] /\ i <= j)

\* the sequence q restricted to the positions in keep, order preserved
RECURSIVE Filter(_, _, _)
Filter(q, keep, i) ==
    IF i > Len(q) THEN <<>>
    ELSE (IF i \in keep THEN <<q[i]>> ELSE <<>>) \o Filter(q, keep, i + 1)

\* list.sort(key = ratio, reverse = True), stable
RECURSIVE SortDesc(_)
SortDesc(matches) ==
    IF matches = <<>> THEN <<>>
    ELSE LET b == BestIndex(matches)
         IN  <<matches[b]>> \o SortDesc(Filter(matches, (1..Len(matches)) \ {b}, 1))

\* fuzzy_match_model(name, candidates, threshold): the (candidate, rounded
\* ratio) pairs whose ratio reaches the threshold, best first
fuzzy_match_model(name, candidates, threshold) ==
    IF name = <<>> \/ candidates = <<>> THEN <<>>
    ELSE LET keep == {i \in 1..Len(candidates) :
                         RatioAtLeast(FuzzyStem(name), FuzzyStem(candidates[i]),
                                      threshold)}
         IN  SortDesc(Filter([i \in 1..Len(candidates) |->
                                 <<candidates[i], Similarity(name, candidates[i])>>],
                             keep, 1))

(***************************************************************************)
(* Dictionaries.  A Python dict of string keys is a record whose DOMAIN is *)
(* the keys present; an ordered dict keyed by file names is a sequence of  *)
(* [key, info] rows in insertion order.                                    *)
(***************************************************************************)

\* d.get(k) of a string-valued key: None is the string "None".  A missing
\* file-name value is the empty sequence (both are falsy).
None == "None"

Get(d, k) == IF k \in DOMAIN d THEN d[k] ELSE None

\* d.get(k, default)
GetOr(d, k, default) == IF k \in DOMAIN d THEN d[k] ELSE default

\* Python truthiness of a string-or-None value
Truthy(v) == v # None /\ v # ""

\* k in table
HasKey(table, k) == \E i \in 1..Len(table) : table[i].key = k

\* table[k]
Lookup(table, k) == table[CHOOSE i \in 1..Len(table) : table[i].key = k].info

\* the least element of a non-empty set of integers
Min(S) == CHOOSE x \in S : \A y \in S : x <= y

\* t occurs in s (the Python test "t in s")
Contains(s, t) == \E i \in 1..(Len(s) - Len(t) + 1) : MatchesAt(s, i, t)

\* guess_model_folder(filename)
guess_model_folder(filename) ==
    LET lower == Lower(filename)
    IN  IF Contains(lower, <<"v", "a", "e">>) THEN "vae"
        ELSE IF Contains(lower, <<"c", "l", "i", "p">>) THEN "clip"
        ELSE IF Contains(lower, <<"l", "o", "r", "a">>) THEN "loras"
        ELSE IF Contains(lower, <<"c", "o", "n", "t", "r", "o", "l", "n", "e", "t">>)
             THEN "controlnet"
        ELSE IF \/ Contains(lower, <<"u", "n", "e", "t">>)
                \/ Contains(lower, <<"d", "i", "f", "f", "u", "s", "i", "o", "n">>)
             THEN "diffusion_models"
        ELSE IF \/ Contains(lower, <<"l", "l", "m">>)
                \/ Contains(lower, <<"q", "w", "e", "n">>)
                \/ Contains(lower, <<"t", "5">>)
             THEN "LLM"
        ELSE IF Contains(lower, EXT_gguf) THEN "diffusion_models"
        ELSE "checkpoints"

(***************************************************************************)
(* core/fuzzy_matcher.py: searches over the two tables                     *)
(***************************************************************************)

\* the dict find_model_with_alternatives / fuzzy_match_in_db build for a row
\* of the external catalogue
ExtInfo(model, description) ==
    [url |-> Get(model, "url"), filename |-> GetOr(model, "filename", <<>>),
     folder |-> GetOr(model, "type", "checkpoints"), description |-> description]

\* find_model_with_alternatives for one alternative name: the curated key,
\* then a curated key of the same basename, then the external catalogue.
\* [found, where, row, matched]
AliasLookup(alt_name, model_db, ext_model_db) ==
    LET alt_basename == PathBasename(alt_name)
        byBase == {i \in 1..Len(model_db) : PathBasename(model_db[i].key) = alt_basename}
        inExt == {i \in 1..Len(ext_model_db) :
                     \/ GetOr(ext_model_db[i], "filename", <<>>) = alt_basename
                     \/ GetOr(ext_model_db[i], "name", <<>>) = alt_basename}
    IN  IF HasKey(model_db, alt_name)
        THEN [found |-> TRUE, where |-> "local", matched |-> alt_name,
              row |-> CHOOSE i \in 1..Len(model_db) : model_db[i].key = alt_name]
        ELSE IF byBase # {}
        THEN [found |-> TRUE, where |-> "local", matched |-> model_db[Min(byBase)].key,
              row |-> Min(byBase)]
        ELSE IF inExt # {}
        THEN [found |-> TRUE, where |-> "ext", matched |-> alt_basename,
              row |-> Min(inExt)]
        ELSE [found |-> FALSE]

\* find_model_with_alternatives(model_name, model_db, ext_model_db): the
\* first alternative, in list order, that some table holds.  A curated hit
\* returns the table's own dict (where = "local", row = its position).
FirstAlternative(alternatives, model_db, ext_model_db) ==
    LET hits == {k \in 1..Len(alternatives) :
                    AliasLookup(alternatives[k], model_db, ext_model_db).found}
        hit == AliasLookup(alternatives[Min(hits)], model_db, ext_model_db)
    IN  IF hits = {} THEN [found |-> FALSE]
        ELSE [found |-> TRUE, where |-> hit.where, row |-> hit.row,
              matched |-> hit.matched, confidence |-> CONFIDENCE_ALIAS,
              method |-> "alias",
              info |-> IF hit.where = "local" THEN model_db[hit.row].info
                       ELSE ExtInfo(ext_model_db[hit.row], "Alt format")]

find_model_with_alternatives(model_name, model_db, ext_model_db) ==
    CHOOSE r \in {FirstAlternative(alternatives, model_db, ext_model_db) :
                     alternatives \in {get_alternative_names(model_name)}} : TRUE

\* ext_names of fuzzy_match_in_db: per catalogue row its filename, then its
\* name when that differs; each with the row it maps to (ext_map keeps the
\* last row of a repeated name)
RECURSIVE ExtNames(_, _)
ExtNames(ext_model_db, i) ==
    IF i > Len(ext_model_db) THEN <<>>
    ELSE LET fname == GetOr(ext_model_db[i], "filename", <<>>)
             mname == GetOr(ext_model_db[i], "name", <<>>)
         IN  (IF fname # <<>> THEN <<fname>> ELSE <<>>)
             \o (IF mname # <<>> /\ mname # fname THEN <<mname>> ELSE <<>>)
             \o ExtNames(ext_model_db, i + 1)

ExtMapRow(ext_model_db, n) ==
    CHOOSE i \in 1..Len(ext_model_db) :
        /\ n \in {GetOr(ext_model_db[i], "filename", <<>>),
                  GetOr(ext_model_db[i], "name", <<>>)}
        /\ \A j \in 1..Len(ext_model_db) :
               n \in {GetOr(ext_model_db[j], "filename", <<>>),
                      GetOr(ext_model_db[j], "name", <<>>)} => j <= i

\* fuzzy_match_in_db(model_name, model_db, ext_model_db, threshold): the best
\* curated candidate if any reaches the threshold, otherwise the best
\* external one
fuzzy_match_in_db(model_name, model_db, ext_model_db, threshold) ==
    LET basename == Basename(model_name)
        local == fuzzy_match_model(basename,
                                   [i \in 1..Len(model_db) |-> model_db[i].key],
                                   threshold)
        ext == fuzzy_match_model(basename, ExtNames(ext_model_db, 1), threshold)
    IN  IF local # <<>>
        THEN [found |-> TRUE, where |-> "local", matched |-> local[1][1],
              confidence |-> local[1][2],
              row |-> CHOOSE i \in 1..Len(model_db) : model_db[i].key = local[1][1],
              info |-> Lookup(model_db, local[1][1])]
        ELSE IF ext # <<>>
        THEN [found |-> TRUE, where |-> "ext", matched |-> ext[1][1],
              confidence |-> ext[1][2],
              row |-> ExtMapRow(ext_model_db, ext[1][1]),
              info |-> ExtInfo(ext_model_db[ExtMapRow(ext_model_db, ext[1][1])],
                               "Fuzzy")]
        ELSE [found |-> FALSE]

\* info["_matched_name"] = ...; info["_confidence"] = ...; info["_method"] = ...
Stamp(info, matched, confidence, method) ==
    [k \in DOMAIN info \cup {"_matched_name", "_confidence", "_method"} |->
        IF k = "_matched_name" THEN matched
        ELSE IF k = "_confidence" THEN confidence
        ELSE IF k = "_method" THEN method
        ELSE info[k]]

\* enhanced_model_search(model_name, model_db, ext_model_db, fuzzy_threshold):
\* the alias step, then the fuzzy step; the three keys are assigned on the
\* dict the step returned.  row: the position in model_db of that dict when
\* it is the table's own (where = "local"), 0 when the step made it.
Stamped(step, method) ==
    IF step.found
    THEN [found |-> TRUE, confidence |-> step.confidence, method |-> method,
          row |-> IF step.where = "local" THEN step.row ELSE 0,
          info |-> Stamp(step.info, step.matched, step.confidence, method)]
    ELSE [found |-> FALSE, row |-> 0]

enhanced_model_search(model_name, model_db, ext_model_db, fuzzy_threshold) ==
    CHOOSE r \in
        {IF a.found THEN Stamped(a, a.method)
         ELSE CHOOSE q \in {Stamped(f, "fuzzy") :
                               f \in {fuzzy_match_in_db(model_name, model_db, ext_model_db,
                                                        fuzzy_threshold)}} : TRUE :
            a \in {find_model_with_alternatives(model_name, model_db, ext_model_db)}} :
        TRUE

\* model_db after enhanced_model_search returned r: the assignments above
\* went to the record of the table when the step returned that record itself
EnhancedSearchEffect(r, model_db) ==
    IF r.found /\ r.row # 0
    THEN [model_db EXCEPT ![r.row].info = r.info]
    ELSE model_db

(***************************************************************************)
(* File names of the model                                                 *)
(***************************************************************************)

WAN == <<"w", "a", "n">>
US == <<"_">>

N_wan_bf16 == WAN \o US \o bf16 \o EXT_safetensors
N_wan_fp16 == WAN \o US \o fp16 \o EXT_safetensors
N_WAN_bf16 == <<"W", "A", "N">> \o US \o bf16 \o EXT_safetensors
N_dir_wan_bf16 == <<"K", "/">> \o N_wan_bf16
N_vae_a == <<"v", "a", "e", "_", "a">> \o EXT_pt
N_vae_b == <<"v", "a", "e", "_", "b">> \o EXT_pt
N_sub_vae_b == <<"s", "/">> \o N_vae_b
N_ext == <<"e", "x", "t">> \o EXT_ckpt
N_hub == <<"h", "u", "b">> \o EXT_gguf
N_split_hub == <<"s", "/">> \o N_hub
N_none == <<"z", "z">> \o EXT_bin

\* the names resolve() and download_model() are called with
Names == {N_wan_bf16, N_wan_fp16, N_WAN_bf16, N_dir_wan_bf16, N_vae_a, N_vae_b,
          N_ext, N_hub, N_none}

\* models_db.json as load_model_db() reads it at start-up
InitialModelDb ==
    << [key |-> N_wan_bf16,
        info |-> [url |-> "https://origin/wan_bf16", folder |-> "diffusion_models",
                  description |-> "curated"]],
       [key |-> N_sub_vae_b,
        info |-> [repo_id |-> "org/vae", filename |-> N_sub_vae_b,
                  url |-> "https://origin/vae_b", folder |-> "vae",
                  description |-> "curated"]] >>

\* model-list.json as fetch_ext_model_db() reads it at start-up
InitialExtModelDb ==
    << [name |-> <<"E", "x", "t">>, filename |-> N_ext,
        url |-> "https://origin/ext", type |-> "checkpoints"] >>

\* what parse_workflow can find under properties.models
EmbeddedCandidates == {N_wan_fp16, N_hub}

\* the hub: PRIORITY_REPOS first, then what list_models can return
HUB ==
    << [id |-> "Kijai/WanVideo_comfy", priority |-> TRUE, files |-> <<N_split_hub>>],
       [id |-> "user/vae", priority |-> FALSE, files |-> <<N_vae_a>>] >>

(***************************************************************************)
(* core/checker.py: hub search and the two definitions of check_model_in_db*)
(***************************************************************************)

\* the first file of a repository whose basename equals the requested
\* basename up to letter case (0: none)
RepoMatch(repo, basename) ==
    LET ok == {k \in 1..Len(repo.files) :
                  Lower(PathBasename(repo.files[k])) = Lower(basename)}
    IN  IF ok = {} THEN 0 ELSE Min(ok)

\* search_huggingface(model_name).  listed: the repositories whose
\* list_repo_files succeeds (for a non-priority repository: that list_models
\* also returned); searchOk: list_models does not raise; any other failure
\* is caught and yields (None, None).  [repo_id, filename], repo_id = None
\* for a miss.
search_huggingface(model_name, imported, listed, searchOk) ==
    LET basename == Basename(model_name)
        prio == {r \in 1..Len(HUB) :
                    HUB[r].priority /\ r \in listed /\ RepoMatch(HUB[r], basename) # 0}
        found == {r \in 1..Len(HUB) :
                     ~HUB[r].priority /\ r \in listed /\ RepoMatch(HUB[r], basename) # 0}
        hit(r) == [repo_id |-> HUB[r].id,
                   filename |-> HUB[r].files[RepoMatch(HUB[r], basename)]]
    IN  IF ~imported THEN [repo_id |-> None, filename |-> <<>>]
        ELSE IF prio # {} THEN hit(Min(prio))
        ELSE IF searchOk /\ found # {} THEN hit(Min(found))
        ELSE [repo_id |-> None, filename |-> <<>>]

\* what the community site returns for a query: one model with two files
CivitaiItems ==
    << [name |-> "pack",
        files |-> << [name |-> N_vae_a, downloadUrl |-> "https://civitai/vae_a"],
                     [name |-> N_none, downloadUrl |-> "https://civitai/zz"] >>] >>

\* how a request to the community site ends
CivitaiAnswers == {"items", "empty", "timeout", "http_error", "malformed"}

\* no answer of the community site (None, None)
CivitaiMiss == [url |-> None, info |-> [none |-> TRUE]]

\* search_civitai(model_name) (search_engines.py:76-191), the versions of a
\* model flattened into its files; the names of the model leave a search
\* term that is not blank.  A file of the same name up to letter case that
\* has a download URL is returned; otherwise the first file of the first
\* model, marked with confidence 0.65.  Every failure is caught and yields
\* (None, None).
search_civitai(model_name, imported, answer) ==
    LET basename == Basename(model_name)
        items == IF answer = "items" THEN CivitaiItems ELSE <<>>
        all == UNION {{<<m, k>> : k \in 1..Len(items[m].files)} : m \in 1..Len(items)}
        exact == {e \in all :
                     /\ Lower(items[e[1]].files[e[2]].name) = Lower(basename)
                     /\ Truthy(items[e[1]].files[e[2]].downloadUrl)}
        first == CHOOSE e \in exact :
                     \A f \in exact : e[1] < f[1] \/ (e[1] = f[1] /\ e[2] <= f[2])
        file == items[first[1]].files[first[2]]
        primary == items[1].files[1]
    IN  IF ~imported \/ items = <<>> THEN CivitaiMiss
        ELSE IF exact # {}
        THEN [url |-> file.downloadUrl,
              info |-> [url |-> file.downloadUrl, filename |-> file.name,
                        description |-> "(CivitAI)", source |-> "civitai"]]
        ELSE IF Len(items[1].files) > 0
        THEN [url |-> primary.downloadUrl,
              info |-> [url |-> primary.downloadUrl, filename |-> primary.name,
                        description |-> "(CivitAI, partial match)",
                        source |-> "civitai", _confidence |-> 650]]
        ELSE CivitaiMiss

\* check_model_in_db(model_name), the definition at checker.py:561.  It is
\* the later of the two module-level definitions of that name, so it is the
\* one the name is bound to when check_model_installed and download_model
\* call it.  hf: what search_huggingface answers.
\* [found, info, searched, row]; searched: search_huggingface was called;
\* row: the position in MODEL_DB of the dict that is returned (the table's
\* own object, not a copy), 0 for a dict made by the call.
check_model_in_db(model_name, model_db, hf) ==
    LET basename == Basename(model_name)
        byBase == {i \in 1..Len(model_db) : basename = PathBasename(model_db[i].key)}
        row(k) == CHOOSE i \in 1..Len(model_db) : model_db[i].key = k
    IN  IF HasKey(model_db, model_name)
        THEN [found |-> TRUE, searched |-> FALSE, row |-> row(model_name),
              info |-> Lookup(model_db, model_name)]
        ELSE IF HasKey(model_db, basename)
        THEN [found |-> TRUE, searched |-> FALSE, row |-> row(basename),
              info |-> Lookup(model_db, basename)]
        ELSE IF byBase # {}
        THEN [found |-> TRUE, searched |-> FALSE, row |-> Min(byBase),
              info |-> model_db[Min(byBase)].info]
        ELSE IF Truthy(hf.repo_id) /\ hf.filename # <<>>
        THEN [found |-> TRUE, searched |-> TRUE, row |-> 0,
              info |-> [repo_id |-> hf.repo_id, filename |-> hf.filename,
                        folder |-> guess_model_folder(basename),
                        description |-> "Auto-found on HuggingFace"]]
        ELSE [found |-> FALSE, searched |-> TRUE, row |-> 0]

\* what a call of check_model_in_db (checker.py:561-600) leaves in MODEL_DB:
\* the definition assigns to no table and to no key of a record
ResolveEffect(model_name, model_db) == model_db

(***************************************************************************)
(* core/checker.py: the download engine.  Sizes and offsets are in MiB.    *)
(***************************************************************************)

\* MIN_FILE_SIZE = 1024 * 1024
MIN_FILE_SIZE == 1

\* the "total_size > 50 * 1024 * 1024" test of download_model
PARALLEL_THRESHOLD == 50

\* threads = 4, the default of download_model_parallel
threads == 4

\* max_retries = 3 of download_chunk
max_retries == 3

\* the size of the large source the model downloads, above the threshold
\* and not a multiple of the number of ranges
LargeSourceSize == 53

\* the origins a URL can lead to: the size of the body (0: an empty body)
\* and whether the server serves byte ranges (and says so in the answer to
\* HEAD)
Origins ==
    {[size |-> 0, ranges |-> FALSE],
     [size |-> MIN_FILE_SIZE, ranges |-> TRUE],
     [size |-> MIN_FILE_SIZE + 1, ranges |-> FALSE],
     [size |-> PARALLEL_THRESHOLD, ranges |-> TRUE],
     [size |-> LargeSourceSize, ranges |-> TRUE],
     [size |-> LargeSourceSize, ranges |-> FALSE]}

\* the body an origin serves: block i of the source is the number i
Body(origin) == [i \in 1..origin.size |-> i]

\* ranges whose last one does not take the remainder of the division
ChunkRangeNoRemainder(i, total_size, nthreads) ==
    LET chunk_size == total_size \div nthreads
        start == (i - 1) * chunk_size
    IN  [start |-> start, end |-> start + chunk_size - 1]

\* ranges of download_model_parallel: (start, end) of range i, 0-based,
\* both ends included
ChunkRange(i, total_size, nthreads) ==
    LET chunk_size == total_size \div nthreads
        start == (i - 1) * chunk_size
    IN  [start |-> start,
         end |-> IF i - 1 < nthreads - 1 THEN start + chunk_size - 1 ELSE total_size - 1]

\* response.content of the GET that download_chunk sends with
\* "Range: bytes=start-end": the range from a server that serves ranges, the
\* whole body (status 200) from one that ignores the header
ChunkContent(origin, r) ==
    IF origin.ranges
    THEN [k \in 1..(r.end - r.start + 1) |-> Body(origin)[r.start + k]]
    ELSE Body(origin)

\* open(path, "r+b"); f.seek(start); f.write(content)
WriteAt(data, start, content) ==
    [k \in 1..(IF start + Len(content) > Len(data) THEN start + Len(content)
               ELSE Len(data)) |->
        IF k > start /\ k <= start + Len(content) THEN content[k - start]
        ELSE IF k <= Len(data) THEN data[k]
        ELSE 0]

\* the file system: a function from the paths that exist to their content
Exists(files, path) == path \in DOMAIN files

WriteFile(files, path, data) ==
    [q \in DOMAIN files \cup {path} |-> IF q = path THEN data ELSE files[q]]

RemoveFile(files, path) == [q \in DOMAIN files \ {path} |-> files[q]]

\* a faulty test of the file already on disk, which never finds one
NeverExists(files, target_path) == FALSE

\* "if os.path.exists(target_path): ... if file_size > MIN_FILE_SIZE" of
\* download_model (checker.py:724-726)
AlreadyExists(files, target_path) ==
    Exists(files, target_path) /\ Len(files[target_path]) > MIN_FILE_SIZE

\* a faulty clean-up, which leaves the file where it is
KeepOnFailure(files, target_path) == files

\* the clean-up of download_model_parallel after a failed range
\* (checker.py:691-696); the file is one this call created and has closed,
\* and its removal is taken to succeed
CleanUpOnFailure(files, target_path) ==
    IF Exists(files, target_path) THEN RemoveFile(files, target_path) ELSE files

\* target_path of download_model: the directory of the folder key, then the
\* basename of the requested name
TargetPath(model_name, info) ==
    <<GetOr(info, "folder", "checkpoints"), Basename(model_name)>>

\* hf_filename = info.get("filename") or info.get("hf_filename")
HfFilename(info) ==
    IF GetOr(info, "filename", <<>>) # <<>> THEN info.filename
    ELSE GetOr(info, "hf_filename", <<>>)

(***************************************************************************)
(* State                                                                   *)
(***************************************************************************)

VARIABLES
    MODEL_DB,             \* checker.MODEL_DB: rows [key, info], insertion order
    EXT_MODEL_DB,         \* checker.EXT_MODEL_DB: list of catalogue rows
    EMBEDDED_MODEL_URLS,  \* checker.EMBEDDED_MODEL_URLS: rows [key, info]
    NOT_FOUND_CACHE,      \* checker.NOT_FOUND_CACHE: set of basenames
    settings,             \* settings.json as load_settings() reads it
    installed,            \* what the host offers: hub client, aria2c
    last,                 \* the latest call of check_model_in_db and its result
    prev,                 \* the call of check_model_in_db before that one
    fs,                   \* the files under the models directory
    job,                  \* the running call of download_model
    workers,              \* the download_chunk tasks of the thread pool
    file_lock,            \* threading.Lock of download_model_parallel: its holder, 0 = free
    alias_call,           \* a call of get_alternative_names: its argument and result
    queue_nodes,          \* ManagerWindow.queue_nodes: list of (url, name)
    queue_models,         \* ManagerWindow.queue_models: list of (name, url)
    download_worker,      \* ManagerWindow.download_worker: the DownloadQueueWorker
    trace,                \* what was observed, in order: the signals emitted, the
                          \* calls of cancel() and of save_url_to_model_db
    MODEL_DB_FILE         \* models_db.json, the document on disk

vars == <<MODEL_DB, EXT_MODEL_DB, EMBEDDED_MODEL_URLS, NOT_FOUND_CACHE, settings,
          installed, last, prev, fs, job, workers, file_lock, alias_call,
          queue_nodes, queue_models, download_worker, trace, MODEL_DB_FILE>>

ui == <<queue_nodes, queue_models, download_worker>>

tables == <<MODEL_DB, EXT_MODEL_DB, EMBEDDED_MODEL_URLS, NOT_FOUND_CACHE, settings,
            installed, alias_call, ui, trace, MODEL_DB_FILE>>

\* no call of check_model_in_db yet (or one separated from the next by a
\* change of the tables)
NoCall == [called |-> FALSE]

\* no call of download_model is running
Idle == [pc |-> "idle"]

\* no call of get_alternative_names
NoAliasCall == [done |-> FALSE, name |-> <<>>, out |-> <<>>]

\* no DownloadQueueWorker was created
NoWorker == [pc |-> "none"]

\* models_db.json holding the table models under its key "models"
Document(models) == [valid |-> TRUE, models |-> models]

\* the window before any item is queued, and models_db.json as load_model_db
\* has just read it
UiAtRest ==
    /\ queue_nodes = <<>>
    /\ queue_models = <<>>
    /\ download_worker = NoWorker
    /\ trace = <<>>
    /\ MODEL_DB_FILE = Document(MODEL_DB)

\* the hosts the program runs on (huggingface_hub importable, aria2c found,
\* requests importable) and the settings it runs with
Hosts ==
    {[hf |-> TRUE, aria2 |-> FALSE, requests |-> TRUE],
     [hf |-> FALSE, aria2 |-> TRUE, requests |-> TRUE],
     [hf |-> FALSE, aria2 |-> TRUE, requests |-> FALSE]}

SettingsChoices == {[fuzzy_threshold |-> 700, use_aria2 |-> TRUE]}

\* the state after the module is imported: load_model_db(),
\* fetch_ext_model_db(), _load_not_found_cache() (checker.py:1866-1869)
Init ==
    /\ MODEL_DB = InitialModelDb
    /\ EXT_MODEL_DB = InitialExtModelDb
    /\ EMBEDDED_MODEL_URLS = <<>>
    /\ NOT_FOUND_CACHE \in {{}, {N_none}}
    /\ settings \in SettingsChoices
    /\ installed \in Hosts
    /\ last = NoCall
    /\ prev = NoCall
    /\ fs = <<>>
    /\ job = Idle
    /\ workers = <<>>
    /\ file_lock = 0
    /\ alias_call = NoAliasCall
    /\ UiAtRest

(***************************************************************************)
(* Resolution                                                              *)
(***************************************************************************)

\* the record of one call of check_model_in_db: its result, whether it
\* called search_huggingface, whether that went to the network, what the
\* hub answered (or would have answered), and what the community site would
\* answer if it were asked
CallRecordOn(model_name, model_db, hf) ==
    LET r == check_model_in_db(model_name, model_db, hf)
    IN  [called |-> TRUE, name |-> model_name, found |-> r.found,
         info |-> IF r.found THEN r.info ELSE [none |-> TRUE],
         row |-> r.row,
         searched |-> r.searched,
         net |-> r.searched /\ installed.hf,
         hub |-> hf,
         civitai |-> CivitaiMiss,
         since |-> "nothing"]

CallRecord(model_name, hf) == CallRecordOn(model_name, MODEL_DB, hf)

\* a call of check_model_in_db(model_name), as check_model_installed makes it
Resolve(model_name) ==
    /\ job.pc = "idle"
    /\ \E listed \in SUBSET (1..Len(HUB)), searchOk \in BOOLEAN,
          answer \in CivitaiAnswers :
           last' = [CallRecord(model_name,
                               search_huggingface(model_name, installed.hf, listed,
                                                  searchOk))
                       EXCEPT !.civitai = search_civitai(model_name, installed.requests,
                                                         answer)]
    /\ prev' = last
    /\ MODEL_DB' = ResolveEffect(model_name, MODEL_DB)
    /\ UNCHANGED <<EXT_MODEL_DB, EMBEDDED_MODEL_URLS, NOT_FOUND_CACHE, settings,
                   installed, alias_call, fs, job, workers, file_lock, ui, trace,
                   MODEL_DB_FILE>>

\* parse_workflow(filename) on a workflow whose properties.models names one
\* model with a URL: EMBEDDED_MODEL_URLS[name] = {...}
ParseWorkflow(name) ==
    /\ job.pc = "idle"
    /\ EMBEDDED_MODEL_URLS' =
           IF HasKey(EMBEDDED_MODEL_URLS, name)
           THEN EMBEDDED_MODEL_URLS
           ELSE Append(EMBEDDED_MODEL_URLS,
                       [key |-> name,
                        info |-> [url |-> "https://origin/embedded",
                                  directory |-> "checkpoints", source |-> "workflow"]])
    /\ last' = NoCall
    /\ prev' = NoCall
    /\ UNCHANGED <<MODEL_DB, EXT_MODEL_DB, NOT_FOUND_CACHE, settings, installed,
                   fs, job, workers, file_lock, alias_call, ui, trace, MODEL_DB_FILE>>

\* clear_not_found_cache()
clear_not_found_cache ==
    /\ job.pc = "idle"
    /\ NOT_FOUND_CACHE' = {}
    /\ last' = NoCall
    /\ prev' = NoCall
    /\ UNCHANGED <<MODEL_DB, EXT_MODEL_DB, EMBEDDED_MODEL_URLS, settings, installed,
                   fs, job, workers, file_lock, alias_call, ui, trace, MODEL_DB_FILE>>

\* a call enhanced_model_search(model_name, MODEL_DB, EXT_MODEL_DB,
\* fuzzy_threshold) on the tables of the module, the call written at
\* checker.py:219 in the definition of check_model_in_db at line 134
EnhancedSearch(model_name) ==
    /\ job.pc = "idle"
    /\ \E r \in {enhanced_model_search(model_name, MODEL_DB, EXT_MODEL_DB,
                                         settings.fuzzy_threshold)} :
          /\ last' = [called |-> TRUE, name |-> model_name, found |-> r.found,
                      info |-> IF r.found THEN r.info ELSE [none |-> TRUE],
                      row |-> r.row, searched |-> FALSE, net |-> FALSE,
                      hub |-> search_huggingface(model_name, FALSE, {}, FALSE),
                      civitai |-> CivitaiMiss]
          /\ MODEL_DB' = EnhancedSearchEffect(r, MODEL_DB)
    /\ prev' = last
    /\ UNCHANGED <<EXT_MODEL_DB, EMBEDDED_MODEL_URLS, NOT_FOUND_CACHE, settings,
                   installed, alias_call, fs, job, workers, file_lock, ui, trace,
                   MODEL_DB_FILE>>

(***************************************************************************)
(* download_model                                                          *)
(***************************************************************************)

\* the return of download_model: (success, message)
Done(j, success, message) ==
    [j EXCEPT !.pc = "done", !.success = success, !.message = message]

\* an exception leaves download_model: the call returns nothing
Raised(j, exception) == [j EXCEPT !.pc = "raised", !.message = exception]

\* where download_model goes after the hub step (checker.py:754-761, 774):
\* no URL ends the call, aria2c is tried when enabled and found, otherwise
\* the built-in downloader starts
AfterHub(j) ==
    IF ~Truthy(Get(j.info, "url")) THEN Done(j, FALSE, "No download URL available")
    ELSE IF settings.use_aria2 /\ installed.aria2 THEN [j EXCEPT !.pc = "aria2"]
    ELSE [j EXCEPT !.pc = "get"]

\* download_model(model_name) up to its first download strategy
\* (checker.py:709-740): resolution, the target path, the test of a file
\* that is already there, the choice between the hub client and the URL
DownloadStart(model_name) ==
    /\ job.pc = "call"
    /\ job.name = model_name
    /\ \E listed \in SUBSET (1..Len(HUB)), searchOk \in BOOLEAN :
        LET call == CallRecord(model_name,
                        search_huggingface(model_name, installed.hf, listed, searchOk))
            target == TargetPath(model_name, call.info)
            j == [pc |-> "start", name |-> model_name, info |-> call.info,
                  target |-> target, success |-> FALSE, message |-> "",
                  \* what the call found at the target: its size, -1 for no file
                  found_size |-> IF call.found /\ Exists(fs, target)
                                 THEN Len(fs[target]) ELSE -1,
                  \* a download strategy went to the network
                  net |-> FALSE,
                  \* a request with a Range header was sent
                  ranged |-> FALSE,
                  \* the strategies started so far
                  tried |-> <<>>,
                  \* what download_model_parallel returned
                  parallel |-> "not called",
                  origin |-> [size |-> 0, ranges |-> FALSE], total_size |-> 0]
            repo_id == Get(call.info, "repo_id")
        IN  /\ last' = call
            /\ prev' = NoCall
            /\ IF ~call.found
               THEN /\ job' = Done([j EXCEPT !.target = <<>>], FALSE, "not found in MODEL_DB")
                    /\ fs' = fs
               ELSE IF AlreadyExists(fs, target)
               THEN /\ job' = Done(j, TRUE, "Already exists")
                    /\ fs' = fs
               ELSE IF Exists(fs, target)
               THEN \* os.remove(target_path) at checker.py:730, outside any
                    \* try: the file goes, or the OSError leaves the call
                    \/ /\ fs' = RemoveFile(fs, target)
                       /\ job' = IF Truthy(repo_id) /\ HfFilename(call.info) # <<>>
                                 THEN [j EXCEPT !.pc = "hub"]
                                 ELSE AfterHub(j)
                    \/ /\ fs' = fs
                       /\ job' = Raised(j, "OSError")
               ELSE /\ fs' = fs
                    /\ job' = IF Truthy(repo_id) /\ HfFilename(call.info) # <<>>
                              THEN [j EXCEPT !.pc = "hub"]
                              ELSE AfterHub(j)
    /\ UNCHANGED <<tables, workers, file_lock>>

\* hf_hub_download(repo_id, hf_filename, local_dir = target_dir)
\* (checker.py:740-752): the client library writes local_dir/hf_filename;
\* any exception, a missing library included, falls through to the URL
HubFetch ==
    /\ job.pc = "hub"
    /\ \/ /\ installed.hf
          /\ \E o \in Origins :
                fs' = WriteFile(fs, <<job.target[1], HfFilename(job.info)>>, Body(o))
          /\ job' = Done([job EXCEPT !.net = TRUE, !.tried = Append(@, "hub")],
                         TRUE, "Downloaded")
       \/ /\ fs' = fs
          /\ job' = AfterHub([job EXCEPT !.net = installed.hf \/ @,
                                         !.tried = Append(@, "hub")])
    /\ UNCHANGED <<tables, last, prev, workers, file_lock>>

\* smart_download(url, target_path) (checker.py:761-772,
\* aria2_downloader.py:182-215): aria2c writes the target, or fails and may
\* leave a part of it; only its .aria2 control file is removed
Aria2Fetch ==
    /\ job.pc = "aria2"
    /\ \E o \in Origins :
        \/ /\ fs' = WriteFile(fs, job.target, Body(o))
           /\ job' = Done([job EXCEPT !.net = TRUE, !.tried = Append(@, "aria2"),
                                      !.origin = o],
                          TRUE, "Downloaded (aria2)")
        \/ /\ \E n \in {0, o.size - 1} :
                 fs' = IF n = 0 THEN fs
                       ELSE WriteFile(fs, job.target, SubSeq(Body(o), 1, n))
           /\ job' = [job EXCEPT !.pc = "get", !.net = TRUE,
                                 !.tried = Append(@, "aria2")]
    /\ UNCHANGED <<tables, last, prev, workers, file_lock>>

\* "if not requests" (checker.py:774-775), then session.get(url, stream =
\* True); raise_for_status(); content-length (checker.py:777-786).  An
\* exception ends the call in the handler of checker.py:809-812, which
\* removes the target.
HttpGet ==
    /\ job.pc = "get"
    /\ \/ /\ ~installed.requests
          /\ fs' = fs
          /\ job' = Done(job, FALSE, "requests module not available")
          /\ workers' = workers
       \/ /\ installed.requests
          /\ fs' = RemoveFile(fs, job.target)
          /\ job' = Done([job EXCEPT !.net = TRUE], FALSE, "Error")
          /\ workers' = workers
       \/ \E o \in Origins :
            /\ installed.requests
            /\ job' = [job EXCEPT !.net = TRUE, !.origin = o, !.total_size = o.size,
                                  !.pc = IF o.size > PARALLEL_THRESHOLD
                                         THEN "parallel" ELSE "sequential"]
            /\ fs' = fs
            /\ workers' = workers
    /\ UNCHANGED <<tables, last, prev, file_lock>>

(***************************************************************************)
(* download_model_parallel and download_chunk                              *)
(***************************************************************************)

\* a download_chunk task before its first request: the index of its
\* attempt and the requests it has sent
FreshWorker == [phase |-> "get", attempt |-> 0, requests |-> 0]

\* download_model_parallel up to the thread pool (checker.py:652-676): the
\* file is created with total_size zero blocks (a failure to create it
\* returns (False, "Failed to initialize file")), then HEAD is sent.  An
\* answer without Accept-Ranges returns (False, "Range not supported") to
\* download_model, which goes on to the sequential fetch; an exception of
\* HEAD is logged and the ranges are fetched anyway.
ParallelStart ==
    /\ job.pc = "parallel"
    /\ \/ /\ fs' = fs
          /\ job' = [job EXCEPT !.pc = "sequential", !.tried = Append(@, "parallel"),
                                !.parallel = "Failed to initialize file"]
          /\ workers' = workers
       \/ /\ fs' = WriteFile(fs, job.target, [k \in 1..job.total_size |-> 0])
          /\ \E head \in {"answered", "exception"} :
                IF head = "answered" /\ ~job.origin.ranges
                THEN /\ job' = [job EXCEPT !.pc = "sequential", !.net = TRUE,
                                           !.tried = Append(@, "parallel"),
                                           !.parallel = "Range not supported"]
                     /\ workers' = workers
                ELSE /\ job' = [job EXCEPT !.pc = "chunks",
                                           !.tried = Append(@, "parallel"),
                                           !.net = TRUE]
                     /\ workers' = [i \in 1..threads |-> FreshWorker]
    /\ UNCHANGED <<tables, last, prev, file_lock>>

\* the except branch of download_chunk (checker.py:640-644): the next
\* attempt, or False after the last one
AfterFailureOneMore(w) ==
    IF w.attempt = max_retries THEN [w EXCEPT !.phase = "failed"]
    ELSE [w EXCEPT !.phase = "get", !.attempt = @ + 1]

AfterFailure(w) ==
    IF w.attempt = max_retries - 1 THEN [w EXCEPT !.phase = "failed"]
    ELSE [w EXCEPT !.phase = "get", !.attempt = @ + 1]

\* session.get(url, headers = Range, stream = True); raise_for_status()
\* (checker.py:632-633): the response headers arrive, or the attempt fails
ChunkGet(i) ==
    /\ job.pc = "chunks"
    /\ workers[i].phase = "get"
    /\ \E ok \in BOOLEAN :
          workers' = [workers EXCEPT ![i] =
                         LET sent == [@ EXCEPT !.requests = @ + 1]
                         IN  IF ok THEN [sent EXCEPT !.phase = "lock"]
                             ELSE AfterFailure(sent)]
    /\ job' = [job EXCEPT !.ranged = TRUE, !.net = TRUE]
    /\ UNCHANGED <<tables, last, prev, fs, file_lock>>

\* with file_lock: (checker.py:635) without waiting for the lock to be free
ChunkLockUnguarded(i) ==
    /\ job.pc = "chunks"
    /\ workers[i].phase = "lock"
    /\ file_lock' = i
    /\ workers' = [workers EXCEPT ![i].phase = "content"]
    /\ UNCHANGED <<tables, last, prev, fs, job>>

\* with file_lock: (checker.py:635): the worker waits until no worker
\* holds the lock and takes it
ChunkLock(i) ==
    /\ job.pc = "chunks"
    /\ workers[i].phase = "lock"
    /\ file_lock = 0
    /\ file_lock' = i
    /\ workers' = [workers EXCEPT ![i].phase = "content"]
    /\ UNCHANGED <<tables, last, prev, fs, job>>

\* open(target_path, "r+b"); f.seek(start); response.content
\* (checker.py:636-638).  The response was opened with stream = True, so
\* session.get returned on the headers and the body of the range is
\* transferred here, by response.content, with the file open and the lock
\* held.  An exception of open or of the transfer closes the file, releases
\* the lock and costs the attempt.
ChunkRead(i) ==
    /\ job.pc = "chunks"
    /\ workers[i].phase = "content"
    /\ \/ /\ Exists(fs, job.target)
          /\ workers' = [workers EXCEPT ![i].phase = "write"]
          /\ file_lock' = file_lock
       \/ /\ workers' = [workers EXCEPT ![i] = AfterFailure(@)]
          /\ file_lock' = IF file_lock = i THEN 0 ELSE file_lock
    /\ UNCHANGED <<tables, last, prev, fs, job>>

\* f.write(response.content) and the end of both with blocks
\* (checker.py:638-639): the body is written at the offset of the range,
\* the file is closed, the lock released, and download_chunk returns True
ChunkWrite(i) ==
    /\ job.pc = "chunks"
    /\ workers[i].phase = "write"
    /\ Exists(fs, job.target)
    /\ fs' = [fs EXCEPT ![job.target] =
                  WriteAt(@, ChunkRange(i, job.total_size, threads).start,
                          ChunkContent(job.origin,
                                       ChunkRange(i, job.total_size, threads)))]
    /\ workers' = [workers EXCEPT ![i].phase = "ok"]
    /\ file_lock' = IF file_lock = i THEN 0 ELSE file_lock
    /\ UNCHANGED <<tables, last, prev, job>>

\* results = [f.result() for f in futures] and what follows
\* (checker.py:683-697), then download_model (checker.py:788-792): success
\* ends the call, a failed range removes the file and the sequential fetch
\* is next
ParallelCollect ==
    /\ job.pc = "chunks"
    /\ \A i \in 1..threads : workers[i].phase \in {"ok", "failed"}
    /\ IF \A i \in 1..threads : workers[i].phase = "ok"
       THEN /\ job' = Done([job EXCEPT !.parallel = "Download successful"],
                            TRUE, "Downloaded (Parallel)")
            /\ fs' = fs
       ELSE /\ job' = [job EXCEPT !.pc = "sequential",
                                  !.parallel = "One or more chunks failed"]
            /\ fs' = CleanUpOnFailure(fs, job.target)
    /\ UNCHANGED <<tables, last, prev, workers, file_lock>>

\* the sequential fetch (checker.py:794-812): the body of the first GET is
\* streamed into the target opened with "wb"; an exception on the way
\* removes the target
Sequential ==
    /\ job.pc = "sequential"
    /\ \/ /\ fs' = WriteFile(fs, job.target, Body(job.origin))
          /\ job' = Done([job EXCEPT !.tried = Append(@, "sequential")],
                         TRUE, "Downloaded")
       \/ /\ fs' = RemoveFile(fs, job.target)
          /\ job' = Done([job EXCEPT !.tried = Append(@, "sequential")],
                         FALSE, "Error")
    /\ UNCHANGED <<tables, last, prev, workers, file_lock>>

\* the names download_model is called with
DownloadNames == {N_wan_bf16, N_vae_b, N_hub, N_wan_fp16}

\* where download_model(n) puts its file when n resolves with every
\* repository of the hub listed
ExpectedTarget(n) ==
    LET r == check_model_in_db(n, InitialModelDb,
                               search_huggingface(n, TRUE, 1..Len(HUB), TRUE))
    IN  IF r.found THEN {TargetPath(n, r.info)} ELSE {}

\* the files a host can hold at that path before the call: one of
\* MIN_FILE_SIZE (a leftover) or one above it
OldFiles == {<<-1>>, <<-1, -1>>}

\* the resolver: calls of check_model_in_db, parse_workflow and
\* clear_not_found_cache, in any order
Next ==
    \/ \E n \in Names : Resolve(n)
    \/ \E n \in EmbeddedCandidates : ParseWorkflow(n)
    \/ clear_not_found_cache

Spec == Init /\ [][Next]_vars

\* the alias and fuzzy steps on their own: calls of enhanced_model_search
\* on the live tables, in any order, for names that have no exact match
EnhancedNames == {N_wan_fp16, N_WAN_bf16, N_vae_a, N_ext, N_none}

NextEnhanced == \E n \in EnhancedNames : EnhancedSearch(n)

SpecEnhanced == Init /\ [][NextEnhanced]_vars

\* one call of download_model(name): the name and the disk it finds
InitDownload ==
    /\ MODEL_DB = InitialModelDb
    /\ EXT_MODEL_DB = InitialExtModelDb
    /\ EMBEDDED_MODEL_URLS = <<>>
    /\ NOT_FOUND_CACHE = {}
    /\ settings \in SettingsChoices
    /\ installed \in Hosts
    /\ last = NoCall
    /\ prev = NoCall
    /\ \E n \in DownloadNames :
          /\ job = [pc |-> "call", name |-> n]
          /\ fs \in {<<>>} \cup {WriteFile(<<>>, q, old) :
                                   q \in ExpectedTarget(n), old \in OldFiles}
    /\ workers = <<>>
    /\ file_lock = 0
    /\ alias_call = NoAliasCall
    /\ UiAtRest

NextDownload ==
    \/ \E n \in DownloadNames : DownloadStart(n)
    \/ HubFetch
    \/ Aria2Fetch
    \/ HttpGet
    \/ ParallelStart
    \/ \E i \in 1..threads : ChunkGet(i)
    \/ \E i \in 1..threads : ChunkLock(i)
    \/ \E i \in 1..threads : ChunkRead(i)
    \/ \E i \in 1..threads : ChunkWrite(i)
    \/ ParallelCollect
    \/ Sequential

SpecDownload == InitDownload /\ [][NextDownload]_vars

(***************************************************************************)
(* The download queue of the manager window                                *)
(***************************************************************************)

MaxQueueLen == 2

\* a model name of more than 30 characters
N_long == [i \in 1..28 |-> "x"] \o N_vae_a

\* what the window can queue: (url, name) of a node, (name, url) of a model
QueueNodeItems == {<<"https://git/a", "A">>, <<"https://git/b", "B">>}

QueueModelItems == {<<N_vae_a, "https://origin/vae_a">>, <<N_long, "https://origin/long">>}

\* name[:30]
Take(name, n) == SubSeq(name, 1, IF Len(name) < n THEN Len(name) ELSE n)

\* the first argument of item_started / item_finished ("Node: A",
\* "Model: vae_a.pt...")
NodeLabel(item) == [kind |-> "Node", name |-> item[2]]

ModelLabel(item) == [kind |-> "Model", name |-> Take(item[1], 30)]

\* list.append on a list object the worker may hold as well: the worker was
\* given the window's own lists, and sees the append while shared
AppendShared(w, field, item) ==
    IF w.pc # "none" /\ w.shared
    THEN IF field = "nodes" THEN [w EXCEPT !.nodes = Append(@, item)]
                            ELSE [w EXCEPT !.models = Append(@, item)]
    ELSE w

\* self.queue_nodes = []; self.queue_models = []: the window's attributes
\* are bound to new lists, the worker keeps the old ones
Rebound(w) == IF w.pc # "none" THEN [w EXCEPT !.shared = FALSE] ELSE w

InitQueue ==
    /\ MODEL_DB = InitialModelDb
    /\ EXT_MODEL_DB = InitialExtModelDb
    /\ EMBEDDED_MODEL_URLS = <<>>
    /\ NOT_FOUND_CACHE = {}
    /\ settings \in SettingsChoices
    /\ installed = [hf |-> FALSE, aria2 |-> FALSE, requests |-> TRUE]
    /\ last = NoCall
    /\ prev = NoCall
    /\ fs = <<>>
    /\ job = Idle
    /\ workers = <<>>
    /\ file_lock = 0
    /\ alias_call = NoAliasCall
    /\ UiAtRest

add_node_to_queue(url, name) ==
    /\ <<url, name>> \notin Range(queue_nodes)
    /\ Len(queue_nodes) < MaxQueueLen
    /\ queue_nodes' = Append(queue_nodes, <<url, name>>)
    /\ download_worker' = AppendShared(download_worker, "nodes", <<url, name>>)
    /\ UNCHANGED <<MODEL_DB, EXT_MODEL_DB, EMBEDDED_MODEL_URLS, NOT_FOUND_CACHE,
                   settings, installed, last, prev, fs, job, workers, file_lock,
                   alias_call, queue_models, trace, MODEL_DB_FILE>>

add_model_to_queue(name, url) ==
    /\ <<name, url>> \notin Range(queue_models)
    /\ Len(queue_models) < MaxQueueLen
    /\ queue_models' = Append(queue_models, <<name, url>>)
    /\ download_worker' = AppendShared(download_worker, "models", <<name, url>>)
    /\ UNCHANGED <<MODEL_DB, EXT_MODEL_DB, EMBEDDED_MODEL_URLS, NOT_FOUND_CACHE,
                   settings, installed, last, prev, fs, job, workers, file_lock,
                   alias_call, queue_nodes, trace, MODEL_DB_FILE>>

clear_queue ==
    /\ queue_nodes' = <<>>
    /\ queue_models' = <<>>
    /\ download_worker' = Rebound(download_worker)
    /\ UNCHANGED <<MODEL_DB, EXT_MODEL_DB, EMBEDDED_MODEL_URLS, NOT_FOUND_CACHE,
                   settings, installed, last, prev, fs, job, workers, file_lock,
                   alias_call, trace, MODEL_DB_FILE>>

\* start_queue_download, answered Yes: the worker is given the window's lists
\* themselves and its thread is started
start_queue_download ==
    /\ download_worker.pc = "none"
    /\ queue_nodes # <<>> \/ queue_models # <<>>
    /\ download_worker' = [pc |-> "created", nodes |-> queue_nodes,
                           models |-> queue_models, shared |-> TRUE,
                           is_cancelled |-> FALSE, total |-> 0, index |-> 0, i |-> 0]
    /\ UNCHANGED <<MODEL_DB, EXT_MODEL_DB, EMBEDDED_MODEL_URLS, NOT_FOUND_CACHE,
                   settings, installed, last, prev, fs, job, workers, file_lock,
                   alias_call, queue_nodes, queue_models, trace, MODEL_DB_FILE>>

\* DownloadQueueWorker.cancel()
cancel ==
    /\ download_worker.pc \in {"created", "nodes", "install_node", "models",
                                "download_model"}
    /\ ~download_worker.is_cancelled
    /\ download_worker' = [download_worker EXCEPT !.is_cancelled = TRUE]
    /\ trace' = Append(trace, [sig |-> "cancel"])
    /\ UNCHANGED <<MODEL_DB, EXT_MODEL_DB, EMBEDDED_MODEL_URLS, NOT_FOUND_CACHE,
                   settings, installed, last, prev, fs, job, workers, file_lock,
                   alias_call, queue_nodes, queue_models, MODEL_DB_FILE>>

\* one step of the thread of DownloadQueueWorker.run
WorkerStep(w, events) ==
    /\ download_worker' = w
    /\ trace' = trace \o events
    /\ UNCHANGED <<MODEL_DB, EXT_MODEL_DB, EMBEDDED_MODEL_URLS, NOT_FOUND_CACHE,
                   settings, installed, last, prev, fs, job, workers, file_lock,
                   alias_call, queue_nodes, queue_models, MODEL_DB_FILE>>

\* total = len(self.nodes) + len(self.models); index = 0
RunStart ==
    /\ download_worker.pc = "created"
    /\ WorkerStep([download_worker EXCEPT
                      !.pc = "nodes", !.i = 0, !.index = 0,
                      !.total = Len(download_worker.nodes) + Len(download_worker.models)],
                  <<>>)

\* the head of "for url, name in self.nodes": the next item of the list as
\* it is now, the cancel test, index += 1, item_started
NodesNext ==
    /\ download_worker.pc = "nodes"
    /\ LET w == download_worker
       IN  IF w.i < Len(w.nodes) /\ ~w.is_cancelled
           THEN WorkerStep([w EXCEPT !.pc = "install_node", !.i = @ + 1,
                                     !.index = @ + 1],
                           << [sig |-> "item_started", name |-> NodeLabel(w.nodes[w.i + 1]),
                               index |-> w.index + 1, total |-> w.total] >>)
           ELSE WorkerStep([w EXCEPT !.pc = "models", !.i = 0], <<>>)

\* success, msg, warn = install_node(url); item_finished
InstallNodeDone ==
    /\ download_worker.pc = "install_node"
    /\ LET w == download_worker
       IN  \E success \in BOOLEAN :
              WorkerStep([w EXCEPT !.pc = "nodes"],
                         << [sig |-> "item_finished", name |-> NodeLabel(w.nodes[w.i]),
                             success |-> success] >>)

\* the head of "for name, url in self.models", and all_finished after the
\* loop
ModelsNext ==
    /\ download_worker.pc = "models"
    /\ LET w == download_worker
       IN  IF w.i < Len(w.models) /\ ~w.is_cancelled
           THEN WorkerStep([w EXCEPT !.pc = "download_model", !.i = @ + 1,
                                     !.index = @ + 1],
                           << [sig |-> "item_started", name |-> ModelLabel(w.models[w.i + 1]),
                               index |-> w.index + 1, total |-> w.total] >>)
           ELSE WorkerStep([w EXCEPT !.pc = "finished"], << [sig |-> "all_finished"] >>)

\* success, msg = download_model(name, progress_cb); item_finished. The call
\* returns (True, ...) or (False, ...), or raises (os.remove at
\* checker.py:730 is outside any try) and the exception ends run()
DownloadModelDone ==
    /\ download_worker.pc = "download_model"
    /\ LET w == download_worker
       IN  \/ \E success \in BOOLEAN :
                 WorkerStep([w EXCEPT !.pc = "models"],
                            << [sig |-> "item_finished", name |-> ModelLabel(w.models[w.i]),
                                success |-> success] >>)
           \/ WorkerStep([w EXCEPT !.pc = "died"], <<>>)

\* on_queue_all_finished, the slot of all_finished
on_queue_all_finished ==
    /\ download_worker.pc = "finished"
    /\ queue_nodes' = <<>>
    /\ queue_models' = <<>>
    /\ download_worker' = [download_worker EXCEPT !.pc = "reported", !.shared = FALSE]
    /\ UNCHANGED <<MODEL_DB, EXT_MODEL_DB, EMBEDDED_MODEL_URLS, NOT_FOUND_CACHE,
                   settings, installed, last, prev, fs, job, workers, file_lock,
                   alias_call, trace, MODEL_DB_FILE>>

NextQueue ==
    \/ \E item \in QueueNodeItems : add_node_to_queue(item[1], item[2])
    \/ \E item \in QueueModelItems : add_model_to_queue(item[1], item[2])
    \/ clear_queue
    \/ start_queue_download
    \/ cancel
    \/ RunStart
    \/ NodesNext
    \/ InstallNodeDone
    \/ ModelsNext
    \/ DownloadModelDone
    \/ on_queue_all_finished

SpecQueue == InitQueue /\ [][NextQueue]_vars

(***************************************************************************)
(* Registering a source for a model that was not found                     *)
(***************************************************************************)

MaxSaves == 2

N_dir_none == <<"d", "\\">> \o N_none

RegisterNames == {N_none, N_dir_none, N_wan_fp16}

RegisterUrls == {"https://user/1", "https://user/2"}

\* table[k] = info
DictSet(table, k, info) ==
    IF HasKey(table, k)
    THEN [i \in 1..Len(table) |->
             IF table[i].key = k THEN [key |-> k, info |-> info] ELSE table[i]]
    ELSE Append(table, [key |-> k, info |-> info])

\* what the steps of save_url_to_model_db can do: every step succeeds; the
\* document cannot be read or parsed; it cannot be opened for writing; it is
\* opened for writing, which truncates it, and json.dump fails
SaveOutcomes == {"saved", "read failed", "open failed", "dump failed"}

\* save_url_to_model_db(model_name, url, folder): the document, the table
\* and the success flag it leaves
save_url_to_model_db(model_name, url, folder, document, model_db, outcome) ==
    LET basename == Basename(model_name)
        entry == [url |-> url, folder |-> folder, description |-> "User-added",
                  source |-> "user_input"]
    IN  IF ~document.valid \/ outcome = "read failed" \/ outcome = "open failed"
        THEN [success |-> FALSE, document |-> document, model_db |-> model_db]
        ELSE IF outcome = "dump failed"
        THEN [success |-> FALSE, document |-> [valid |-> FALSE], model_db |-> model_db]
        ELSE [success |-> TRUE,
              document |-> Document(DictSet(document.models, basename, entry)),
              model_db |-> DictSet(model_db, basename, entry)]

\* parse_workflow on a workflow whose properties.models names the model
EmbedUrl(table, name) ==
    DictSet(table, name, [url |-> "https://origin/embedded",
                          directory |-> "checkpoints", source |-> "workflow"])

InitRegister ==
    /\ MODEL_DB = InitialModelDb
    /\ EXT_MODEL_DB = InitialExtModelDb
    /\ EMBEDDED_MODEL_URLS = <<>>
    /\ NOT_FOUND_CACHE = {}
    /\ settings \in SettingsChoices
    /\ installed = [hf |-> FALSE, aria2 |-> FALSE, requests |-> TRUE]
    /\ last = NoCall
    /\ prev = NoCall
    /\ fs = <<>>
    /\ job = Idle
    /\ workers = <<>>
    /\ file_lock = 0
    /\ alias_call = NoAliasCall
    /\ UiAtRest

\* check_dependencies(filename) for a workflow that uses model_name:
\* parse_workflow, which stores the URL the workflow embeds for the model if
\* it embeds one, then check_model_installed -> check_model_in_db
check_dependencies(model_name, embeds) ==
    /\ EMBEDDED_MODEL_URLS' = IF embeds
                              THEN EmbedUrl(EMBEDDED_MODEL_URLS, Basename(model_name))
                              ELSE EMBEDDED_MODEL_URLS
    /\ last' = [CallRecord(model_name,
                           search_huggingface(model_name, installed.hf, {}, FALSE))
                   EXCEPT !.since = IF embeds THEN "embedded" ELSE "nothing"]
    /\ prev' = last
    /\ UNCHANGED <<MODEL_DB, EXT_MODEL_DB, NOT_FOUND_CACHE, settings, installed, fs,
                   job, workers, file_lock, alias_call, ui, trace, MODEL_DB_FILE>>

\* show_url_input_dialog(model_name), accepted with a URL and "save to DB"
\* ticked, for a model the window lists as missing: save_url_to_model_db,
\* add_model_to_queue, and the refresh by check_dependencies
show_url_input_dialog(model_name, url, outcome) ==
    /\ last.called /\ ~last.found /\ last.name = model_name
    /\ Len(trace) < MaxSaves
    /\ \E r \in {save_url_to_model_db(model_name, url, guess_model_folder(model_name),
                                       MODEL_DB_FILE, MODEL_DB, outcome)} :
          /\ MODEL_DB_FILE' = r.document
          /\ MODEL_DB' = r.model_db
          /\ trace' = Append(trace, [sig |-> "save", basename |-> Basename(model_name),
                                     url |-> url, success |-> r.success,
                                     memory_before |-> MODEL_DB,
                                     document_before |-> MODEL_DB_FILE])
          /\ last' = [CallRecordOn(model_name, r.model_db,
                                   search_huggingface(model_name, installed.hf, {}, FALSE))
                         EXCEPT !.since = IF r.success THEN "saved" ELSE "nothing"]
    /\ prev' = last
    /\ queue_models' = IF <<model_name, url>> \in Range(queue_models)
                       THEN queue_models
                       ELSE Append(queue_models, <<model_name, url>>)
    /\ UNCHANGED <<EXT_MODEL_DB, EMBEDDED_MODEL_URLS, NOT_FOUND_CACHE, settings,
                   installed, fs, job, workers, file_lock, alias_call, queue_nodes,
                   download_worker>>

NextRegister ==
    \/ \E n \in RegisterNames, embeds \in BOOLEAN : check_dependencies(n, embeds)
    \/ \E n \in RegisterNames, url \in RegisterUrls, outcome \in SaveOutcomes :
          show_url_input_dialog(n, url, outcome)

SpecRegister == InitRegister /\ [][NextRegister]_vars

(***************************************************************************)
(* Calls of fuzzy_match_in_db on its own                                   *)
(***************************************************************************)

N_VAE_A == <<"V", "A", "E", "_", "A">> \o EXT_pt

\* the tables and thresholds the calls are made with
FuzzyCuratedChoices == {<<>>, InitialModelDb}

FuzzyExternalChoices ==
    LET vae == [name |-> <<"V", "a", "e">>, filename |-> N_vae_a,
                url |-> "https://origin/vae_a", type |-> "vae"]
    IN  {<<>>, InitialExtModelDb, <<vae>>, InitialExtModelDb \o <<vae>>}

FuzzyThresholds == {700, 850}

FuzzyNames == Names \cup {N_VAE_A}

InitFuzzy ==
    /\ MODEL_DB \in FuzzyCuratedChoices
    /\ EXT_MODEL_DB \in FuzzyExternalChoices
    /\ EMBEDDED_MODEL_URLS = <<>>
    /\ NOT_FOUND_CACHE = {}
    /\ settings \in {[fuzzy_threshold |-> t, use_aria2 |-> TRUE] : t \in FuzzyThresholds}
    /\ installed = [hf |-> FALSE, aria2 |-> FALSE, requests |-> TRUE]
    /\ last = NoCall
    /\ prev = NoCall
    /\ fs = <<>>
    /\ job = Idle
    /\ workers = <<>>
    /\ file_lock = 0
    /\ alias_call = NoAliasCall
    /\ UiAtRest

\* found, info, confidence, matched = fuzzy_match_in_db(model_name, MODEL_DB,
\* EXT_MODEL_DB, fuzzy_threshold)
FuzzyMatchInDb(model_name) ==
    /\ \E r \in {fuzzy_match_in_db(model_name, MODEL_DB, EXT_MODEL_DB,
                                     settings.fuzzy_threshold)} :
          last' = IF r.found
                  THEN [called |-> TRUE, name |-> model_name, found |-> TRUE,
                        where |-> r.where, matched |-> r.matched,
                        confidence |-> r.confidence, info |-> r.info]
                  ELSE [called |-> TRUE, name |-> model_name, found |-> FALSE]
    /\ prev' = last
    /\ UNCHANGED <<tables, fs, job, workers, file_lock>>

NextFuzzy == \E n \in FuzzyNames : FuzzyMatchInDb(n)

SpecFuzzy == InitFuzzy /\ [][NextFuzzy]_vars

(***************************************************************************)
(* The partition of download_model_parallel on its own                     *)
(***************************************************************************)

\* the arguments total_size and threads of the calls
MaxTotalSize == 24
MaxThreadCount == 6

PartitionTarget == <<"vae", N_vae_a>>

\* a call download_model_parallel(url, target_path, total_size, threads = N)
\* about to start
InitPartition ==
    /\ MODEL_DB = InitialModelDb
    /\ EXT_MODEL_DB = InitialExtModelDb
    /\ EMBEDDED_MODEL_URLS = <<>>
    /\ NOT_FOUND_CACHE = {}
    /\ settings \in SettingsChoices
    /\ installed = [hf |-> FALSE, aria2 |-> FALSE, requests |-> TRUE]
    /\ last = NoCall
    /\ prev = NoCall
    /\ fs \in {<<>>, WriteFile(<<>>, PartitionTarget, <<-1, -1>>)}
    /\ \E total_size \in 1..MaxTotalSize, nthreads \in 1..MaxThreadCount :
          job = [pc |-> "partition", total_size |-> total_size, threads |-> nthreads,
                 target |-> PartitionTarget, ranges |-> <<>>]
    /\ workers = <<>>
    /\ file_lock = 0
    /\ alias_call = NoAliasCall
    /\ UiAtRest

\* download_model_parallel from its file initialisation to its list of
\* ranges (checker.py:652-664): open(target_path, "wb") and
\* f.truncate(total_size) leave a file of total_size zero bytes, or fail and
\* the call returns; then one (start, end) per thread
Partition ==
    /\ job.pc = "partition"
    /\ \/ /\ fs' = fs
          /\ job' = [job EXCEPT !.pc = "Failed to initialize file"]
       \/ /\ fs' = WriteFile(fs, job.target, [k \in 1..job.total_size |-> 0])
          /\ job' = [job EXCEPT !.pc = "ranges",
                                !.ranges = [i \in 1..job.threads |->
                                               ChunkRange(i, job.total_size, job.threads)]]
    /\ UNCHANGED <<tables, last, prev, workers, file_lock>>

NextPartition == Partition

SpecPartition == InitPartition /\ [][NextPartition]_vars

(***************************************************************************)
(* Calls of get_alternative_names on its own                               *)
(***************************************************************************)

\* the tokens, separators, tails and extensions the argument is built from
AliasTokens == Range(PRECISION_TOKENS) \cup {<<"F", "P", "1", "6">>, Lower(Q4_K_M)}

AliasSeparators == {"_", "-"}

AliasTails == {<<>>, <<"_", "s", "c", "a", "l", "e", "d">>, <<"-", "v", "2">>}

AliasExtensions == {EXT_pt, EXT_safetensors, EXT_gguf, <<>>}

AliasInputs ==
    {WAN \o <<sep>> \o tok \o tail \o ext :
        sep \in AliasSeparators, tok \in AliasTokens, tail \in AliasTails,
        ext \in AliasExtensions}
    \cup {WAN \o tail \o ext : tail \in AliasTails, ext \in AliasExtensions}

InitAlias ==
    /\ MODEL_DB = InitialModelDb
    /\ EXT_MODEL_DB = InitialExtModelDb
    /\ EMBEDDED_MODEL_URLS = <<>>
    /\ NOT_FOUND_CACHE = {}
    /\ settings \in SettingsChoices
    /\ installed = [hf |-> TRUE, aria2 |-> FALSE, requests |-> TRUE]
    /\ last = NoCall
    /\ prev = NoCall
    /\ fs = <<>>
    /\ job = Idle
    /\ workers = <<>>
    /\ file_lock = 0
    /\ \E n \in AliasInputs : alias_call = [done |-> FALSE, name |-> n, out |-> <<>>]
    /\ UiAtRest

\* alternatives = get_alternative_names(model_name)
GetAlternativeNames ==
    /\ ~alias_call.done
    /\ alias_call' = [alias_call EXCEPT !.done = TRUE,
                                        !.out = get_alternative_names(alias_call.name)]
    /\ UNCHANGED <<MODEL_DB, EXT_MODEL_DB, EMBEDDED_MODEL_URLS, NOT_FOUND_CACHE,
                   settings, installed, last, prev, fs, job, workers, file_lock,
                   ui, trace, MODEL_DB_FILE>>

NextAlias == GetAlternativeNames

SpecAlias == InitAlias /\ [][NextAlias]_vars

(***************************************************************************)
(* The tiers of the cascade, as the definition of check_model_in_db at     *)
(* checker.py:134 tests them                                               *)
(***************************************************************************)

\* "basename in EMBEDDED_MODEL_URLS"
EmbeddedHit(name) == HasKey(EMBEDDED_MODEL_URLS, Basename(name))

\* the three exact tests against MODEL_DB: full name, basename, a key of the
\* same basename
CuratedHit(name) ==
    \/ HasKey(MODEL_DB, name)
    \/ HasKey(MODEL_DB, Basename(name))
    \/ \E i \in 1..Len(MODEL_DB) : Basename(name) = PathBasename(MODEL_DB[i].key)

\* the exact tests against EXT_MODEL_DB: filename, then name
ExternalHit(name) ==
    \E i \in 1..Len(EXT_MODEL_DB) :
        \/ GetOr(EXT_MODEL_DB[i], "filename", <<>>) = Basename(name)
        \/ GetOr(EXT_MODEL_DB[i], "name", <<>>) = Basename(name)

\* the two steps of enhanced_model_search
AliasHit(name) == find_model_with_alternatives(name, MODEL_DB, EXT_MODEL_DB).found

FuzzyHit(name) ==
    fuzzy_match_in_db(name, MODEL_DB, EXT_MODEL_DB, settings.fuzzy_threshold).found

\* "if repo_id and filename" on the answer of search_huggingface
HubHit(hf) == Truthy(hf.repo_id) /\ hf.filename # <<>>

\* some tier before the hub search matches
LocalHit(name) ==
    EmbeddedHit(name) \/ CuratedHit(name) \/ ExternalHit(name) \/ AliasHit(name)
    \/ FuzzyHit(name)

\* "if url and civitai_info" on the answer of search_civitai
CivitaiHit(civ) == Truthy(civ.url)

\* the "_method" of the first tier that matches; no key of the web search
\* is configured, so that tier is skipped
FirstTierMethod(name, hf, civ) ==
    IF EmbeddedHit(name) THEN "embedded"
    ELSE IF CuratedHit(name) \/ ExternalHit(name) THEN "exact"
    ELSE IF AliasHit(name) THEN "alias"
    ELSE IF FuzzyHit(name) THEN "fuzzy"
    ELSE IF HubHit(hf) THEN "huggingface"
    ELSE IF CivitaiHit(civ) THEN "civitai"
    ELSE "none"

\* the "_method" and "_confidence" of a result ("none" for NotFound,
\* "missing" and -1 for a result that carries no such key)
Method(call) == IF call.found THEN GetOr(call.info, "_method", "missing") ELSE "none"

Confidence(call) == IF call.found THEN GetOr(call.info, "_confidence", -1) ELSE -1

(***************************************************************************)
(* The definition of check_model_in_db at checker.py:134 on its own: the   *)
(* cascade with the Not-Found cache, which the later definition shadows    *)
(***************************************************************************)

CascadeNames == {N_wan_fp16, N_vae_a, N_ext, N_hub, N_none}

\* how the tiers behind the tables end for a name that none of them finds.
\* search_huggingface: an import that fails, a listing that raises (caught,
\* checker.py:553-558), or a search through every repository
HubEnd(imported, listed, searchOk) ==
    IF ~imported THEN "missing library"
    ELSE IF listed # 1..Len(HUB) \/ ~searchOk THEN "failed"
    ELSE "miss"

\* search_civitai: no requests module, a request that fails (caught,
\* search_engines.py:181-189), or an answer without the file
CivitaiEnd(imported, answer) ==
    IF ~imported THEN "missing library"
    ELSE IF answer \in {"timeout", "http_error", "malformed"} THEN answer
    ELSE "miss"

\* search_tavily: not called without a key; with one, a hit, a miss or a
\* failure (caught)
TavilyAnswers == {"no key", "hit", "miss", "failed"}

TavilyEnd(answer) == IF answer = "no key" THEN "skipped" ELSE answer

\* check_model_in_db(model_name) as the definition at line 134 runs it
ResolveCascade(model_name) ==
    /\ job.pc = "idle"
    /\ LET basename == Basename(model_name)
           call == [called |-> TRUE, name |-> model_name,
                    cache_before |-> NOT_FOUND_CACHE, cached |-> FALSE,
                    found |-> TRUE, hub_end |-> "not called",
                    civitai_end |-> "not called", tavily_end |-> "not called"]
       IN  IF basename \in NOT_FOUND_CACHE
           THEN /\ last' = [call EXCEPT !.cached = TRUE, !.found = FALSE]
                /\ UNCHANGED <<MODEL_DB, NOT_FOUND_CACHE>>
           ELSE IF EmbeddedHit(model_name) \/ CuratedHit(model_name)
                   \/ ExternalHit(model_name)
           THEN /\ last' = call
                /\ UNCHANGED <<MODEL_DB, NOT_FOUND_CACHE>>
           ELSE \E r \in {enhanced_model_search(model_name, MODEL_DB, EXT_MODEL_DB,
                                                 settings.fuzzy_threshold)} :
                IF r.found
                THEN /\ last' = call
                     /\ MODEL_DB' = EnhancedSearchEffect(r, MODEL_DB)
                     /\ UNCHANGED NOT_FOUND_CACHE
                ELSE \E listed \in SUBSET (1..Len(HUB)), searchOk \in BOOLEAN,
                        answer \in CivitaiAnswers, tavily \in TavilyAnswers :
                     \E hf \in {search_huggingface(model_name, installed.hf, listed,
                                                     searchOk)},
                        civ \in {search_civitai(model_name, installed.requests,
                                                 answer)} :
                        LET hub_end == IF HubHit(hf) THEN "hit"
                                       ELSE HubEnd(installed.hf, listed, searchOk)
                            civitai_end == IF CivitaiHit(civ) THEN "hit"
                                           ELSE CivitaiEnd(installed.requests, answer)
                        IN  IF HubHit(hf)
                            THEN /\ last' = [call EXCEPT !.hub_end = hub_end]
                                 /\ UNCHANGED <<MODEL_DB, NOT_FOUND_CACHE>>
                            ELSE IF CivitaiHit(civ)
                            THEN /\ last' = [call EXCEPT !.hub_end = hub_end,
                                                         !.civitai_end = civitai_end]
                                 /\ UNCHANGED <<MODEL_DB, NOT_FOUND_CACHE>>
                            ELSE /\ last' = [call EXCEPT
                                                !.hub_end = hub_end,
                                                !.civitai_end = civitai_end,
                                                !.tavily_end = TavilyEnd(tavily),
                                                !.found = (tavily = "hit")]
                                 /\ NOT_FOUND_CACHE' =
                                        IF tavily = "hit" THEN NOT_FOUND_CACHE
                                        ELSE NOT_FOUND_CACHE \cup {basename}
                                 /\ UNCHANGED MODEL_DB
    /\ UNCHANGED <<EXT_MODEL_DB, EMBEDDED_MODEL_URLS, settings, installed, prev,
                   alias_call, fs, job, workers, file_lock, ui, trace, MODEL_DB_FILE>>

NextCascade ==
    \/ \E n \in CascadeNames : ResolveCascade(n)
    \/ \E n \in EmbeddedCandidates : ParseWorkflow(n)
    \/ clear_not_found_cache

SpecCascade == Init /\ [][NextCascade]_vars

(***************************************************************************)
(* Properties of the cascade (under SpecCascade)                           *)
(***************************************************************************)

C1_PriorityOrder ==
    last.called =>
        /\ Method(last) = FirstTierMethod(last.name, last.hub, last.civitai)
        /\ LocalHit(last.name) => last.found /\ ~last.searched

\* the curated table holds the basename, up to letter case
CuratedAnyCase(name) ==
    \E i \in 1..Len(MODEL_DB) :
        Lower(PathBasename(MODEL_DB[i].key)) = Lower(Basename(name))

\* C2: for every basename present in the curated table, in the stored case
\* or in a different one, resolve returns confidence 1.0 and method "exact".
C2_CuratedExact ==
    (last.called /\ ~EmbeddedHit(last.name) /\ CuratedAnyCase(last.name)) =>
        /\ last.found
        /\ Confidence(last) = CONFIDENCE_EXACT
        /\ Method(last) = "exact"

\* the curated rows whose name is the requested basename with its precision
\* token replaced by a registered alternative
AliasRows(name) ==
    {i \in 1..Len(MODEL_DB) :
        PathBasename(MODEL_DB[i].key) \in Range(PrecisionAlternatives(Basename(name)))}

\* C3: a name with a recognized precision token, not embedded and with no
\* exact match, whose alternative is in the curated table, resolves to that
\* record with method "alias" and confidence 0.90.
C3_AliasTier ==
    (/\ last.called
     /\ ~EmbeddedHit(last.name) /\ ~CuratedHit(last.name) /\ ~ExternalHit(last.name)
     /\ AliasRows(last.name) # {}) =>
        /\ last.found
        /\ Method(last) = "alias"
        /\ Confidence(last) = CONFIDENCE_ALIAS
        /\ \E i \in AliasRows(last.name) :
               Get(last.info, "url") = Get(MODEL_DB[i].info, "url")

\* C4: a name with no embedded, exact or alias hit and a candidate at or
\* above the threshold resolves to that candidate with method "fuzzy" and
\* the measured similarity as confidence; and the fuzzy tier never returns a
\* candidate below the threshold.
C4_FuzzyTier ==
    last.called =>
        /\ (/\ ~EmbeddedHit(last.name) /\ ~CuratedHit(last.name)
            /\ ~ExternalHit(last.name) /\ ~AliasHit(last.name)
            /\ FuzzyHit(last.name)) =>
               LET f == fuzzy_match_in_db(last.name, MODEL_DB, EXT_MODEL_DB,
                                          settings.fuzzy_threshold)
               IN  /\ last.found
                   /\ Method(last) = "fuzzy"
                   /\ Confidence(last) = f.confidence
                   /\ Get(last.info, "url") = Get(f.info, "url")
        /\ Method(last) = "fuzzy" => Confidence(last) >= settings.fuzzy_threshold

\* no table and no repository of the hub holds the name
Unresolvable(name) ==
    /\ ~LocalHit(name)
    /\ \A r \in 1..Len(HUB) : RepoMatch(HUB[r], Basename(name)) = 0

\* C5: when resolve is called twice in a row on a name no tier can resolve,
\* with no cache clear in between, the second call returns NotFound without
\* any network lookup.
C5_NotFoundIdempotent ==
    (/\ prev.called /\ last.called
     /\ prev.name = last.name
     /\ Unresolvable(last.name)
     /\ ~CivitaiHit(prev.civitai) /\ ~CivitaiHit(last.civitai)) =>
        /\ ~last.found
        /\ ~last.net

\* the place of a method in the order of the cascade
TierRank(method) ==
    CASE method = "embedded" -> 1
      [] method = "exact" -> 2
      [] method = "alias" -> 3
      [] method = "fuzzy" -> 4
      [] method = "huggingface" -> 5
      [] method = "civitai" -> 6
      [] OTHER -> 7

\* C14: every confidence lies in [0,1]; of two results, the one of the
\* earlier tier has a confidence at least that of the later tier; and a
\* fuzzy result's confidence is never below the configured threshold.
C14_ConfidenceMonotone ==
    /\ (last.called /\ last.found) => Confidence(last) \in 0..CONFIDENCE_EXACT
    /\ (/\ prev.called /\ prev.found /\ last.called /\ last.found
        /\ TierRank(FirstTierMethod(prev.name, prev.hub, prev.civitai))
               < TierRank(FirstTierMethod(last.name, last.hub, last.civitai))) =>
           Confidence(prev) >= Confidence(last)
    /\ (last.called /\ last.found
        /\ FirstTierMethod(last.name, last.hub, last.civitai) = "fuzzy") =>
           Confidence(last) >= settings.fuzzy_threshold

C17_SoftFailure ==
    (/\ last.called
     /\ ~installed.hf
     /\ ~LocalHit(last.name)
     /\ Basename(last.name) \notin NOT_FOUND_CACHE) =>
        /\ last.found <=> CivitaiHit(last.civitai)
        /\ last.found => /\ Method(last) = "civitai"
                         /\ Get(last.info, "url") = last.civitai.url

(***************************************************************************)
(* Properties of download_model (under SpecDownload)                       *)
(***************************************************************************)

\* download_model has passed its resolution step
Started == job.pc \notin {"idle", "call"}

C7_ParallelEqualsSequential ==
    (Started /\ job.pc = "done" /\ job.message = "Downloaded (Parallel)") =>
        /\ Exists(fs, job.target)
        /\ fs[job.target] = Body(job.origin)

\* C8 as amended: when the name resolves and the target file is on disk
\* above the minimum size, download_model returns success at once, starts no
\* download strategy, sends no request after its resolution step and leaves
\* the file as it is.
C8_AlreadyExists ==
    (Started /\ job.found_size > MIN_FILE_SIZE) =>
        /\ job.pc = "done"
        /\ job.success
        /\ job.message = "Already exists"
        /\ job.tried = <<>>
        /\ ~job.net
        /\ ~job.ranged
        /\ Exists(fs, job.target) /\ Len(fs[job.target]) = job.found_size

\* download_model has returned "Already exists" for a name whose resolution
\* asked the hub
C8_Witness ==
    /\ Started
    /\ job.found_size > MIN_FILE_SIZE
    /\ job.message = "Already exists"
    /\ last.net

\* C8 as stated: with the target file on disk above the minimum size, the
\* call returns success at once, starts no strategy and makes no network
\* call at all, its resolution step included.
C8_ZeroNetworkCalls ==
    (Started /\ job.found_size > MIN_FILE_SIZE) =>
        /\ job.pc = "done"
        /\ job.success
        /\ job.tried = <<>>
        /\ ~job.net
        /\ ~last.net

\* C9: for a source above the parallel threshold whose origin does not
\* serve byte ranges, no request with a Range header is sent, and a
\* successful call got its file from the sequential fetch.
C9_NoRangeNoChunks ==
    (/\ Started
     /\ job.total_size > PARALLEL_THRESHOLD
     /\ ~job.origin.ranges) =>
        /\ ~job.ranged
        /\ (job.pc = "done" /\ job.success) => job.message = "Downloaded"

\* C11: download_model returns a (success, message) pair on every expected
\* failure, an existing file that cannot be removed included; no exception
\* leaves the call.
C11_NeverRaises == Started => job.pc # "raised"

\* C12: when download_model returns failure after a strategy was tried, no
\* file exists at the target path.
C12_NoPartialFileOnFailure ==
    (Started /\ job.pc = "done" /\ ~job.success /\ job.tried # <<>>) =>
        ~Exists(fs, job.target)

\* C13: when download_model reports success, a file exists at the target
\* path and its size is at least the minimum plausible size.
C13_SuccessMeansPlausibleFile ==
    (Started /\ job.pc = "done" /\ job.success) =>
        /\ Exists(fs, job.target)
        /\ Len(fs[job.target]) >= MIN_FILE_SIZE


\* the strategies of download_model in their order, and when each applies
StrategyOrder == <<"hub", "aria2", "parallel", "sequential">>

Pos(strategy) == CHOOSE k \in 1..Len(StrategyOrder) : StrategyOrder[k] = strategy

HubApplicable(j) == Truthy(Get(j.info, "repo_id")) /\ HfFilename(j.info) # <<>>

Aria2Applicable(j) == settings.use_aria2 /\ installed.aria2

ParallelApplicable(j) == j.total_size >= PARALLEL_THRESHOLD /\ j.origin.ranges

\* C16: the strategies run in the order hub, accelerator, parallel ranged,
\* sequential, none twice; the hub fetch only with repo+filename, the
\* accelerator only when enabled and found, ranged requests only for a
\* source of at least 50 MB that supports ranges; and a strategy starts
\* only after every earlier applicable one was tried.
C16_StrategyOrder ==
    (Started /\ job.pc # "raised") =>
        /\ \A a, b \in 1..Len(job.tried) :
               a < b => Pos(job.tried[a]) < Pos(job.tried[b])
        /\ "hub" \in Range(job.tried) => HubApplicable(job)
        /\ "aria2" \in Range(job.tried) => Aria2Applicable(job)
        /\ job.ranged => ParallelApplicable(job)
        /\ (job.tried # <<>> /\ HubApplicable(job)) => job.tried[1] = "hub"
        /\ (Aria2Applicable(job) /\ Range(job.tried) \cap {"parallel", "sequential"} # {})
               => "aria2" \in Range(job.tried)
        /\ ("sequential" \in Range(job.tried) /\ ParallelApplicable(job))
               => "parallel" \in Range(job.tried)

\* C18: the lock serializes only the write: a worker holds the file lock
\* only while it seeks and writes bytes it has already received.
C18_LockOnlyForWrite ==
    (job.pc = "chunks" /\ file_lock # 0) => workers[file_lock].phase = "write"

\* the range workers that have the target file open
FileOpen == {i \in DOMAIN workers : workers[i].phase \in {"content", "write"}}

\* C19: chunk writes are mutually exclusive: at most one range worker has
\* the target file open for writing, and it is the holder of the lock.
C19_WritesMutuallyExclusive ==
    /\ Cardinality(FileOpen) <= 1
    /\ \A i \in FileOpen : file_lock = i

\* a worker writes while another waits for the lock and a range after the
\* writer's has already been written
C19_Witness ==
    /\ job.pc = "chunks"
    /\ \E i, k, w \in DOMAIN workers :
          /\ workers[i].phase = "write"
          /\ workers[w].phase = "lock"
          /\ k > i /\ workers[k].phase = "ok"

\* download_model_parallel has returned from its thread pool
Collected ==
    Started /\ job.parallel \in {"Download successful", "One or more chunks failed"}

\* C20: each range sends at most 3 requests and none after its first
\* success; a failed range has used all 3; the outcome is reported only
\* when every range has ended, success exactly when every range succeeded.
C20_RetryBudget ==
    /\ \A i \in DOMAIN workers :
          /\ workers[i].requests <= max_retries
          /\ workers[i].phase = "failed" => workers[i].requests = max_retries
          /\ workers[i].phase = "ok" => workers[i].requests = workers[i].attempt + 1
    /\ Collected =>
          /\ \A i \in DOMAIN workers : workers[i].phase \in {"ok", "failed"}
          /\ job.parallel = "Download successful"
                 <=> \A i \in DOMAIN workers : workers[i].phase = "ok"

\* the pool was collected with one range that failed three times and one
\* that succeeded at its second request
C20_Witness ==
    /\ Collected
    /\ job.parallel = "One or more chunks failed"
    /\ \E i, k \in DOMAIN workers :
          /\ workers[i].phase = "failed" /\ workers[i].requests = max_retries
          /\ workers[k].phase = "ok" /\ workers[k].requests = 2

\* a result names something download_model can fetch: a URL, or a hub
\* repository together with a file name
Fetchable(info) ==
    \/ Truthy(Get(info, "url"))
    \/ Truthy(Get(info, "repo_id")) /\ HfFilename(info) # <<>>

\* C29: every found result carries a fetchable source, a non-empty URL or a
\* hub repo_id with a non-empty file name, and so download_model never
\* answers "No download URL available" for a name that was found.
C29_FoundIsFetchable ==
    (Started /\ last.called /\ last.found) =>
        /\ Fetchable(last.info)
        /\ ~(job.pc = "done" /\ job.message = "No download URL available")

(***************************************************************************)
(* Properties of registering a source (under SpecRegister)                 *)
(***************************************************************************)

\* the calls of save_url_to_model_db so far, and the latest successful one
\* for the basename of call k
SaveCalls == {k \in 1..Len(trace) : trace[k].sig = "save"}

LatestWrite(k) ==
    /\ trace[k].success
    /\ \A j \in SaveCalls : (j > k /\ trace[j].basename = trace[k].basename) =>
                                ~trace[j].success

\* the table holds, under basename, the entry with this url
Holds(table, basename, url) == HasKey(table, basename) /\ Lookup(table, basename).url = url

\* C26: after any sequence of calls of save_url_to_model_db, the table in
\* memory and the document on disk agree on every entry written by a
\* successful call, a successful call preserves every other entry of the
\* document, and a failed call leaves the table in memory unchanged.
C26_MemoryAndDocumentAgree ==
    /\ \A k \in SaveCalls :
          LatestWrite(k) =>
              /\ Holds(MODEL_DB, trace[k].basename, trace[k].url)
              /\ MODEL_DB_FILE.valid
              /\ Holds(MODEL_DB_FILE.models, trace[k].basename, trace[k].url)
              /\ Lookup(MODEL_DB, trace[k].basename)
                    = Lookup(MODEL_DB_FILE.models, trace[k].basename)
    /\ (trace # <<>> /\ trace[Len(trace)].sig = "save") =>
          LET call == trace[Len(trace)]
              before == call.document_before.models
          IN  IF call.success
              THEN \A i \in 1..Len(before) :
                      before[i].key # call.basename =>
                          /\ HasKey(MODEL_DB_FILE.models, before[i].key)
                          /\ Lookup(MODEL_DB_FILE.models, before[i].key) = before[i].info
              ELSE MODEL_DB = call.memory_before

\* C27: a source registered after a miss is found by the next resolve: when
\* a resolve of a name returned NotFound and then save_url_to_model_db
\* succeeded for it, or a parsed workflow supplied an embedded URL for its
\* basename, the next resolve of the name is found at confidence 1.0.
C27_RegisteredThenFound ==
    (/\ prev.called /\ ~prev.found
     /\ last.called /\ last.name = prev.name
     /\ last.since \in {"saved", "embedded"}) =>
        /\ last.found
        /\ Confidence(last) = CONFIDENCE_EXACT

(***************************************************************************)
(* Properties of the download queue (under SpecQueue)                      *)
(***************************************************************************)

\* the item_started signals, in emission order
Emitted(sig) == SelectSeq(trace, LAMBDA e : e.sig = sig)

\* C30: every item_started(name, index, total) has 1 <= index <= total, and
\* the indexes are 1, 2, 3, ... in emission order, also when the window
\* adds to or clears its queue lists while the worker iterates over them.
C30_IndexWithinTotal ==
    LET started == Emitted("item_started")
    IN  \A k \in 1..Len(started) :
            /\ started[k].index = k
            /\ 1 <= started[k].index
            /\ started[k].index <= started[k].total

\* an item is in flight at position p of the trace: the last signal of an
\* item before p is an item_started
InFlight(p) ==
    \E s \in 1..(p - 1) :
        /\ trace[s].sig = "item_started"
        /\ \A q \in (s + 1)..(p - 1) : trace[q].sig # "item_finished"

ThreadEnded == download_worker.pc \in {"finished", "reported", "died"}

\* C25: the cancel flag is checked only between jobs: when cancel() is called
\* while an item is in flight, that item runs to its item_finished, no
\* item_started follows for a later item, and the thread ends with
\* all_finished, emitted once, as its last signal.
C25_CancelBetweenJobs ==
    \A c \in 1..Len(trace) :
        (trace[c].sig = "cancel" /\ InFlight(c)) =>
            /\ \A p \in (c + 1)..Len(trace) : trace[p].sig # "item_started"
            /\ \A p \in 1..Len(trace) : trace[p].sig = "all_finished" => p = Len(trace)
            /\ ThreadEnded =>
                  /\ \E p \in (c + 1)..Len(trace) : trace[p].sig = "item_finished"
                  /\ trace[Len(trace)].sig = "all_finished"

(***************************************************************************)
(* Properties of fuzzy_match_in_db (under SpecFuzzy)                       *)
(***************************************************************************)

\* the candidate names of both tables, and those that reach the threshold
FuzzyCandidates ==
    {MODEL_DB[i].key : i \in 1..Len(MODEL_DB)} \cup Range(ExtNames(EXT_MODEL_DB, 1))

Reaching(name) ==
    {c \in FuzzyCandidates :
        RatioAtLeast(FuzzyStem(name), FuzzyStem(c), settings.fuzzy_threshold)}

\* C23: the fuzzy tier matches against the union of the curated and the
\* external names: it finds a candidate when one of either table reaches
\* the threshold, and the one it returns has the highest similarity of all
\* that do.
C23_FuzzyUnionBest ==
    last.called =>
        /\ last.found <=> Reaching(last.name) # {}
        /\ last.found =>
               /\ last.matched \in Reaching(last.name)
               /\ \A c \in Reaching(last.name) :
                      Similarity(last.name, c) <= last.confidence

(***************************************************************************)
(* Properties of the partition (under SpecPartition)                       *)
(***************************************************************************)

\* the bytes of a range
Bytes(r) == r.start..r.end

\* the file has total_size bytes and the ranges are non-empty, start where
\* the one before ends, are of one size but for the last, which takes the
\* remainder, and cover bytes 0 .. total_size-1 without overlap
GoodPartition(j) ==
    LET n == Len(j.ranges)
        chunk_size == j.total_size \div j.threads
    IN  /\ Exists(fs, j.target) /\ Len(fs[j.target]) = j.total_size
        /\ n = j.threads
        /\ \A i \in 1..n : j.ranges[i].start <= j.ranges[i].end
        /\ j.ranges[1].start = 0
        /\ \A i \in 1..(n - 1) : j.ranges[i + 1].start = j.ranges[i].end + 1
        /\ j.ranges[n].end = j.total_size - 1
        /\ \A i \in 1..(n - 1) : Cardinality(Bytes(j.ranges[i])) = chunk_size
        /\ Cardinality(Bytes(j.ranges[n])) = chunk_size + (j.total_size % j.threads)
        /\ \A a, b \in 1..n : a # b => Bytes(j.ranges[a]) \cap Bytes(j.ranges[b]) = {}
        /\ UNION {Bytes(j.ranges[i]) : i \in 1..n} = 0..(j.total_size - 1)

\* C21 as stated: for every positive total size and range count N the file
\* is pre-allocated at total size and the N ranges are non-empty, disjoint,
\* contiguous and cover exactly bytes 0 .. total_size-1.
C21_PartitionAnySize == job.pc = "ranges" => GoodPartition(job)

\* C21 amended: the same for every total size of at least N bytes.
C21_Partition ==
    (job.pc = "ranges" /\ job.total_size >= job.threads) => GoodPartition(job)

\* a partition into several ranges of a size that N does not divide
C21_Witness ==
    /\ job.pc = "ranges"
    /\ job.threads > 1
    /\ job.total_size > job.threads
    /\ job.total_size % job.threads # 0
    /\ Len(fs[job.target]) = job.total_size

(***************************************************************************)
(* Properties of get_alternative_names (under SpecAlias)                   *)
(***************************************************************************)

\* no precision or quantization token is recognized in the basename
NoToken(basename) == PrecisionSearch(Stem(basename), 1).start = 0

\* the extensions registered as alternatives of an extension
RegisteredExtensions(ext) ==
    UNION {Range(EXTENSION_ALIASES[i].val) :
              i \in {r \in 1..Len(EXTENSION_ALIASES) : EXTENSION_ALIASES[r].key = ext}}

\* the speculative GGUF names of a .safetensors stem
GgufVariants(stem) ==
    {stem \o <<sep>> \o quant \o EXT_gguf :
        sep \in {"_", "-"}, quant \in {Q4_K_M, Q5_K_M, Q8_0}}

\* C22 as stated: get_alternative_names returns an empty list for every
\* basename in which no precision/quantization token is recognized,
\* whatever its file extension.
C22_NoTokenNoAliases ==
    (alias_call.done /\ NoToken(Basename(alias_call.name))) => alias_call.out = <<>>

\* C22 amended: for a basename with no recognized token the result holds
\* only the stem with the registered alternatives of its extension and, for
\* .safetensors, the speculative GGUF names; it is empty exactly when the
\* extension has no registered alternative.
C22_NoTokenOnlyExtensions ==
    (alias_call.done /\ NoToken(Basename(alias_call.name))) =>
        LET basename == Basename(alias_call.name)
            stem == Stem(basename)
            ext == Lower(Ext(basename))
        IN  /\ Range(alias_call.out) =
                   {stem \o e : e \in RegisteredExtensions(ext)}
                   \cup (IF ext = EXT_safetensors THEN GgufVariants(stem) ELSE {})
            /\ alias_call.out = <<>> <=> RegisteredExtensions(ext) = {}

\* a basename with no token and a registered extension, and its alternatives
C22_Witness ==
    /\ alias_call.done
    /\ NoToken(Basename(alias_call.name))
    /\ Ext(Basename(alias_call.name)) = EXT_pt
    /\ Len(alias_call.out) = 3

\* the keys of FORMAT_ALIASES, and "B is listed as an alternative of A"
RegisteredTokens == {FORMAT_ALIASES[i].key : i \in 1..Len(FORMAT_ALIASES)}

Listed(A, B) == B \in Range(DictGet(FORMAT_ALIASES, A))

\* C24: the alias table is a symmetric adjacency relation over all its
\* tokens, quantization levels included: for the token A recognized in a
\* name and every token B of the table, B is listed as an alternative of A
\* if and only if A is listed as an alternative of B.
C24_TableSymmetric ==
    alias_call.done =>
        LET stem == Stem(Basename(alias_call.name))
            match == PrecisionSearch(stem, 1)
            A == SubSeq(stem, match.start + 1,
                        match.start + Len(PRECISION_TOKENS[match.tok]))
        IN  (match.start # 0 /\ A \in RegisteredTokens) =>
                \A B \in RegisteredTokens : Listed(A, B) <=> Listed(B, A)

\* the precision tags of FORMAT_ALIASES (its first six keys)
PrecisionTags == {fp16, bf16, fp32, fp8, fp8_e4m3fn, fp8_e4m3fn_scaled}

\* C10: alias generation is symmetric for precision tags: when the
\* recognized token of a basename is the tag A and B is a registered
\* alternative of A, the alternatives of the basename include the name with
\* B in place of A, and the alternatives of that name include the basename.
C10_AliasSymmetry ==
    alias_call.done =>
        LET basename == Basename(alias_call.name)
            stem == Stem(basename)
            match == PrecisionSearch(stem, 1)
            tokLen == Len(PRECISION_TOKENS[match.tok])
            A == SubSeq(stem, match.start + 1, match.start + tokLen)
            withTag(B) == SubSeq(stem, 1, match.start) \o B
                          \o From(stem, match.start + tokLen + 1) \o Ext(basename)
        IN  (match.start # 0 /\ A \in PrecisionTags) =>
                \A B \in Range(DictGet(FORMAT_ALIASES, A)) :
                    /\ withTag(B) \in Range(alias_call.out)
                    /\ basename \in Range(get_alternative_names(withTag(B)))

====
